---- MODULE Spec2Model ----
(***************************************************************************)
(* SynchroCap: the synchronized multi-camera recording pipeline.           *)
(*                                                                         *)
(* The module models RecordingController                                   *)
(* (src/src/synchroCap/recording_controller.py): prepare(), start(), the   *)
(* per-camera worker threads, the completion monitor and _cleanup(), the   *)
(* SRAW writer, and the SRAW reader of                                     *)
(* src/dev/tutorials/13_raw_viewer/s13_raw_tool.py.                        *)
(*                                                                         *)
(* Cameras, ffmpeg processes, the clock and the file system are the        *)
(* environment: every call into them that can raise is a nondeterministic  *)
(* choice between success and the exception the code catches.              *)
(***************************************************************************)
EXTENDS Integers, Sequences, FiniteSets, TLC

(***************************************************************************)
(* Bounds of the exploration.                                              *)
(***************************************************************************)
\* frames one camera delivers in one session at most
MaxFrames == 3
\* last tick at which the clock advances while no worker waits for its deadline
MaxTime == 1
\* polls of _wait_all_slaves before the deadline (PTP_SLAVE_TIMEOUT_S / PTP_POLL_INTERVAL_S = 30 in the source)
MaxPolls == 1
\* buffers of a recording sink (QUEUE_BUFFER_COUNT = 500 in the source)
QUEUE_BUFFER_COUNT == 2
\* sessions prepared by the caller
MaxSessions == 1
\* frames of a recording given to the raw tool, and values of their timestamps
MaxToolFrames == 3
\* frame numbers in the metadata logs given to sync-check
MaxSyncFrames == 2
\* last reading of time.time_ns() followed while prepare() estimates and schedules
MaxWall == 2
\* frames a camera delivers in a session that fills a batch of metadata rows
MaxLogFrames == 11
\* CamListener.max_frames (1000 in the script) and CamListener.target_frames (300)
max_frames == 2
target_frames == 11

(***************************************************************************)
(* Program constants.                                                      *)
(***************************************************************************)
SRAW_VERSION == 1
DEFAULT_FRAMES_PER_FILE == 1000
PIXEL_FORMAT_BAYER_GR8 == 0
FILE_HEADER_SIZE == 40
FRAME_HEADER_SIZE == 24

\* the cameras of the multi-view, by slot position
Dev == {1, 2}
\* the capture scripts open four cameras: for i in range(4)
NumCameras == 4
Cam == 1..NumCameras

\* a serial is a sequence of characters; Unknown is the fallback of prepare()
Unknown == <<"u", "n", "k", "n", "o", "w", "n">>
SerialAssignments ==
    {[d \in Dev |-> IF d = 1 THEN <<"7">> ELSE Unknown], [d \in Dev |-> Unknown],
     [d \in Dev |-> IF d = 1 THEN <<"7">> ELSE <<"4", "2">>]}
Digits == <<"0", "1", "2", "3", "4", "5", "6", "7", "8", "9">>
DigitSet == {Digits[i] : i \in 1..10}

\* slot.get("trigger_interval_fps", 50.0) of every slot dict, in frames per second
DefaultFps == [d \in Dev |-> 50]

\* the values the caller passes to prepare()
PrepareArgs ==
    {[start_delay_s |-> 0, duration_s |-> 1, output_format |-> "mp4",
      frames_per_file |-> DEFAULT_FRAMES_PER_FILE, trigger_interval_fps |-> DefaultFps],
     [start_delay_s |-> 1, duration_s |-> 1, output_format |-> "raw", frames_per_file |-> 2,
      trigger_interval_fps |-> DefaultFps]}
\* the raw sessions of the caller
RawArgs ==
    {[start_delay_s |-> 1, duration_s |-> 1, output_format |-> "raw", frames_per_file |-> K,
      trigger_interval_fps |-> DefaultFps] : K \in {-1, 0, 1, 2}}
\* sessions with any sign of start_delay_s and of the slots' trigger_interval_fps
ConfigArgs ==
    {[start_delay_s |-> sd, duration_s |-> 1, output_format |-> "raw", frames_per_file |-> 2,
      trigger_interval_fps |-> fps] : sd \in {-1, 0, 1}, fps \in [Dev -> {-50, 0, 50}]}

\* image geometry of the modelled cameras (one byte per frame)
WIDTH == 1
HEIGHT == 1

VARIABLES
    state,          \* RecordingController._state
    error_message,  \* RecordingController._error_message (the text before the values)
    error_detail,   \* the values formatted into the message: <<>> or the role counts
    cfg,            \* _start_delay_s, _duration_s, _output_format, _frames_per_file
    slots,          \* RecordingController._slots: the devices of the session, in order
    slot,           \* the RecordingSlot of each device
    threads,        \* RecordingController._threads: the pairs <<serial, device of the thread>>
    host_target_ns, \* "unset" or "set"
    call,           \* where the caller is inside prepare()
    thr,            \* the worker thread of each device
    mon,            \* the completion monitor thread
    dev,            \* the camera behind each slot (environment)
    serialOf,       \* the serial each camera reports
    files,          \* the files of the session directory: name -> bytes
    now,            \* time.monotonic() since the last start(), in ticks
    sessions,       \* prepare() calls that found the controller idle
    readBack,       \* result of the last read of the session directory by the raw tool
    report,         \* what the last command of the raw tool reported
    timing,         \* the clocks and the numbers of the offset estimation and the schedule
    cap             \* the listener-driven capture scripts: listeners, EndFlag, stopped

vars == <<state, error_message, error_detail, cfg, slots, slot, threads, host_target_ns, call,
          thr, mon, dev, serialOf, files, now, sessions, readBack, report, timing, cap>>

(***************************************************************************)
(* Small helpers.                                                          *)
(***************************************************************************)
Range(s) == {s[i] : i \in 1..Len(s)}


\* RecordingSlot(serial=..., grabber=...): the dataclass defaults
NewSlot ==
    [ delta_ns |-> "zero",        \* delta_ns: int = 0
      frame_count |-> 0,
      trigger_interval_fps |-> 50, \* trigger_interval_fps: float = 50.0
      csv_file |-> "none",         \* "none" | "open" | "closed"
      csv_writer |-> FALSE,
      csv_buffer |-> <<>>,
      csv_rows |-> <<>>,           \* rows written through csv_writer
      csv_pos |-> 0,               \* rows of csv_rows that csv_file has flushed to the disk
      ffmpeg_proc |-> "none",      \* "none" | "running" | "exited" by itself |
                                   \* "finished" after _cleanup closed its stdin
      stdin |-> "none",            \* "none" | "open" | "closed"
      has_sink |-> FALSE,          \* recording_sink is not None
      raw_file |-> <<>>,           \* <<>> is None, else the name of the open file
      raw_pos |-> 0,               \* position of the handle raw_file
      raw_file_start_frame |-> 0,
      raw_files_created |-> <<>>,
      released |-> <<>> ]          \* history: the release calls made for the slot, in order

\* wrote: the frames (device frame numbers) the worker has written to its sink, in order
\* trace: what the worker did with its buffers, in order (history)
NoThread == [pc |-> "none", end_time |-> 0, exit |-> "none", wrote |-> <<>>, trace |-> <<>>]
\* counts: slave_count, master_count, other_count of the last poll of _wait_all_slaves
NoCall == [pc |-> "none", k |-> 0, polls |-> 0, counts |-> <<0, 0, 0>>]
\* the raw tool has not read the session
NotRead == [done |-> FALSE, serial |-> <<>>, raw_files |-> <<>>, frames |-> <<>>]
\* sync-check has computed nothing
NoSync == [cameras |-> <<>>, common |-> <<>>, diffs |-> <<>>, violations |-> <<>>,
           threshold_arg |-> 0, threshold_ns |-> 0]
\* no command of the raw tool has run
NoReport == [cmd |-> "none", exit |-> "none", file |-> <<>>, frames |-> <<>>,
             serials |-> <<>>, cams |-> <<>>, sync |-> NoSync, fps |-> 0, plan |-> <<>>]
\* the numbers behind the schedule.  host: time.time_ns(); the clock of device d shows
\* host + skew[d]; latch_value: TIMESTAMP_LATCH_VALUE; time_reg, interval_reg:
\* ACTION_SCHEDULER_TIME and ACTION_SCHEDULER_INTERVAL; delta_ns: the value of
\* slot.delta_ns; host_target_ns: the value of _host_target_ns.
\* History of the current session: latch_host, the reading of the host clock when
\* TIMESTAMP_LATCH was issued on the device (-1: not issued), and cmds, the
\* ACTION_SCHEDULER_* commands issued on the device, in order, each with the value
\* written, the device clock at the call, and whether TIME, INTERVAL or COMMIT was
\* accepted.
NoTiming ==
    [host |-> 0, skew |-> [d \in Dev |-> 0], latch_value |-> [d \in Dev |-> 0],
     host_ref_before_ns |-> 0, host_ref_after_ns |-> 0, host_ref_ns |-> 0,
     delta_ns |-> [d \in Dev |-> 0], host_target_ns |-> 0,
     time_reg |-> [d \in Dev |-> 0], interval_reg |-> [d \in Dev |-> 0],
     latch_host |-> [d \in Dev |-> -1], cmds |-> [d \in Dev |-> <<>>]]
\* an empty directory
NoFiles == [name \in {} |-> <<>>]

\* a CamListener after __init__ and its camera before stream_setup; history: popped,
\* released (buffers), saved (the frames saved as images), stops (stream_stop calls)
NoListener ==
    [stop_dropping |-> FALSE, mode |-> "run", outq |-> <<>>, frame_no |-> 0,
     saved_frames |-> 0, csv_buffer |-> <<>>, csv_rows |-> <<>>, csv_closed |-> FALSE,
     popped |-> 0, released |-> 0, saved |-> <<>>, streaming |-> FALSE, stops |-> 0,
     disconnected |-> "no"]
NoCap ==
    [kind |-> "none", l |-> [c \in Cam |-> NoListener], EndFlag |-> 0, stopped |-> {},
     main |-> "none"]

\* _set_state / _set_error: the successor values of state and error_message
SetState(s) == state' = s /\ UNCHANGED <<error_message, error_detail>>
SetErrorWith(msg, detail) == error_message' = msg /\ error_detail' = detail /\ state' = "error"
SetError(msg) == SetErrorWith(msg, <<>>)

(***************************************************************************)
(* _cleanup(): per slot of _slots close the CSV, close ffmpeg's stdin and  *)
(* wait for it (MP4) or close a raw file left open (RAW), stop a stream    *)
(* that is still running; then forget the slots and the threads.           *)
(***************************************************************************)
\* open(path, "w") / open(path, "wb"), and file.write(b) at the position of a handle
OpenTruncate(fs, name) == [x \in DOMAIN fs \cup {name} |-> IF x = name THEN <<>> ELSE fs[x]]

WriteAt(c, pos, b) ==
    LET padded == IF Len(c) < pos THEN c \o [i \in 1..(pos - Len(c)) |-> 0] ELSE c
        newLen == IF Len(padded) > pos + Len(b) THEN Len(padded) ELSE pos + Len(b)
    IN [i \in 1..newLen |-> IF i > pos /\ i <= pos + Len(b) THEN b[i - pos] ELSE padded[i]]

\* f"cam{serial}.csv"; the content of a CSV file is the sequence of its rows
CsvFilename(serial) == <<"c", "a", "m">> \o serial \o <<".", "c", "s", "v">>

\* writerow(["frame_number", "device_timestamp_ns"]); a row is the sequence of its fields
CsvHeader ==
    << <<"f", "r", "a", "m", "e", "_", "n", "u", "m", "b", "e", "r">>,
       <<"d", "e", "v", "i", "c", "e", "_", "t", "i", "m", "e", "s", "t", "a", "m", "p",
         "_", "n", "s">> >>

\* csv_file.flush(): the rows written since the last flush reach the file
FlushCsv(fs, sl, name) ==
    [fs EXCEPT ![name] = WriteAt(@, sl.csv_pos, SubSeq(sl.csv_rows, sl.csv_pos + 1,
                                                       Len(sl.csv_rows)))]

\* lines 799-805: writerows(csv_buffer), clear, flush, close; an exception of the
\* flush leaves the file open
CloseCsv(sl, failing) ==
    IF sl.csv_file # "open" \/ "csv_flush" \in failing THEN sl
    ELSE LET rows == IF sl.csv_writer THEN sl.csv_rows \o sl.csv_buffer ELSE sl.csv_rows
         IN [sl EXCEPT !.csv_file = IF "csv_close" \in failing THEN @ ELSE "closed",
                       !.csv_rows = rows, !.csv_pos = Len(rows),
                       !.csv_buffer = IF sl.csv_writer THEN <<>> ELSE @]

\* the release calls _cleanup() makes for a slot, in order; failing: the calls that raise
CleanupCalls(sl, dv, fmt, failing) ==
    (IF sl.csv_file = "open"
     THEN <<"csv_flush">> \o (IF "csv_flush" \in failing THEN <<>> ELSE <<"csv_close">>)
     ELSE <<>>)
    \o (IF fmt = "mp4"
        THEN (IF sl.ffmpeg_proc # "none" /\ sl.stdin = "open" THEN <<"stdin_close">> ELSE <<>>)
        ELSE (IF sl.raw_file # <<>>
              THEN <<"raw_flush">> \o (IF "raw_flush" \in failing THEN <<>> ELSE <<"raw_close">>)
              ELSE <<>>))
    \o (IF dv.streaming
        THEN <<"acquisition_stop">>
                \o (IF "acquisition_stop" \in failing THEN <<>> ELSE <<"stream_stop">>)
        ELSE <<>>)

CleanupSlot(sl, dv, fmt, failing) ==
    [CloseCsv(sl, failing) EXCEPT
        !.stdin = IF fmt = "mp4" /\ sl.ffmpeg_proc # "none" /\ sl.stdin = "open"
                     /\ "stdin_close" \notin failing
                  THEN "closed" ELSE @,
        !.ffmpeg_proc = IF fmt = "mp4" /\ sl.ffmpeg_proc = "running" THEN "finished" ELSE @,
        !.raw_file = IF fmt = "raw" THEN <<>> ELSE @,
        !.released = @ \o CleanupCalls(sl, dv, fmt, failing) ]

\* stream_stop ends the acquisition too
CleanupDev(dv, failing) ==
    IF ~dv.streaming \/ "acquisition_stop" \in failing THEN dv
    ELSE [dv EXCEPT !.acquiring = FALSE,
                    !.streaming = "stream_stop" \in failing]

\* the calls of a set of <<device, call>> pairs that concern device d
FailingOf(failing, d) == {p[2] : p \in {q \in failing : q[1] = d}}

\* the directory after _cleanup() has closed the CSV files of the slots k.. in order
RECURSIVE CleanupFiles(_, _, _, _)
CleanupFiles(fs, slotNow, k, failing) ==
    IF k > Len(slots) THEN fs
    ELSE LET d == slots[k]
             sl == slotNow[d]
             closed == [CloseCsv(sl, {}) EXCEPT !.csv_pos = sl.csv_pos]
         IN CleanupFiles(IF sl.csv_file = "open" /\ "csv_flush" \notin FailingOf(failing, d)
                         THEN FlushCsv(fs, closed, CsvFilename(serialOf[d])) ELSE fs,
                         slotNow, k + 1, failing)

\* failing: the <<device, call>> pairs whose call raises
Cleanup(slotNow, devNow, filesNow, fmt, failing) ==
    /\ files' = CleanupFiles(filesNow, slotNow, 1, failing)
    /\ slot' = [d \in Dev |->
                    IF d \in Range(slots)
                    THEN CleanupSlot(slotNow[d], devNow[d], fmt, FailingOf(failing, d))
                    ELSE slotNow[d]]
    /\ dev' = [d \in Dev |-> IF d \in Range(slots)
                             THEN CleanupDev(devNow[d], FailingOf(failing, d))
                             ELSE devNow[d]]
    /\ slots' = <<>>
    /\ threads' = {}

\* the devices of a set in slot order
RECURSIVE SortedSeq(_)
SortedSeq(S) ==
    IF S = {} THEN <<>>
    ELSE LET m == CHOOSE x \in S : \A y \in S : x <= y
         IN <<m>> \o SortedSeq(S \ {m})

\* a worker thread that has been started and has not returned
Running(d) == thr[d].pc \in {"start", "loop", "stop"}

(***************************************************************************)
(* prepare(), lines 221-268: reject the call unless idle, take over the    *)
(* arguments, create the output directory, build the slots.                *)
(* A call that finds the controller idle is explored once the threads of   *)
(* the previous session have returned, and MaxSessions times at most.      *)
(***************************************************************************)
PrepareBegin(valid, args, mkdirOk) ==
    /\ call.pc = "none"
    /\ IF state # "idle"
       THEN /\ SetError("Recording is already in progress")
            /\ UNCHANGED <<cfg, slots, slot, threads, host_target_ns, call, thr, mon,
                           dev, files, sessions, timing>>
       ELSE /\ sessions < MaxSessions
            /\ \A d \in Dev : ~Running(d)
            /\ mon \in {"none", "done"}
            /\ sessions' = sessions + 1
            /\ cfg' = [start_delay_s |-> args.start_delay_s, duration_s |-> args.duration_s,
                       output_format |-> args.output_format,
                       frames_per_file |-> args.frames_per_file]
            /\ threads' = {}
            /\ files' = NoFiles
            /\ thr' = [d \in Dev |-> NoThread]
            /\ mon' = "none"
            /\ timing' = [timing EXCEPT !.latch_host = [d \in Dev |-> -1],
                                         !.cmds = [d \in Dev |-> <<>>]]
            /\ UNCHANGED <<dev, host_target_ns>>
            /\ IF ~mkdirOk
               THEN /\ SetError("Failed to create output directory")
                    /\ slots' = <<>>
                    /\ UNCHANGED <<slot, call>>
               ELSE /\ slots' = SortedSeq(valid)
                    /\ slot' = [d \in Dev |->
                                  IF d \in valid
                                  THEN [NewSlot EXCEPT !.trigger_interval_fps =
                                                           args.trigger_interval_fps[d]]
                                  ELSE NewSlot]
                    /\ IF valid = {}
                       THEN SetError("No valid cameras found") /\ UNCHANGED call
                       ELSE /\ state' = "preparing"
                            /\ error_message' = ""
                            /\ error_detail' = <<>>
                            /\ call' = [NoCall EXCEPT !.pc = "wait", !.polls = MaxPolls]
    /\ UNCHANGED <<serialOf, now, readBack, report, cap>>

\* the failure exit of prepare(): _set_error(msg), then _cleanup(), return False
PrepareFailWith(msg, detail, slotNow, devNow, filesNow) ==
    /\ SetErrorWith(msg, detail)
    /\ Cleanup(slotNow, devNow, filesNow, cfg.output_format, {})
    /\ call' = NoCall

PrepareFail(msg, slotNow, devNow) == PrepareFailWith(msg, <<>>, slotNow, devNow, files)

(***************************************************************************)
(* _wait_all_slaves(): one iteration of the polling loop, and the exit of  *)
(* the loop at the deadline.                                               *)
(***************************************************************************)
PtpStatuses == {"Slave", "Master", "None"}

\* lines 333-344: the devices of the session counted by the role they report
CountRoles(st) ==
    <<Cardinality({d \in Range(slots) : st[d] = "Slave"}),
      Cardinality({d \in Range(slots) : st[d] = "Master"}),
      Cardinality({d \in Range(slots) : st[d] \notin {"Slave", "Master"}})>>

\* a poll that lets prepare() go on as soon as one device is a slave
AllSlaves_SomeSlave(counts) == counts[1] > 0
\* line 346: slave_count == total
AllSlaves(counts) == counts[1] = Len(slots)

WaitAllSlavesPoll(st) ==
    /\ call.pc = "wait"
    /\ call.polls > 0
    /\ IF AllSlaves(CountRoles(st))
       THEN /\ call' = [call EXCEPT !.pc = "params", !.counts = CountRoles(st)]
            /\ UNCHANGED <<state, error_message, error_detail>>
       ELSE /\ SetState("preparing")
            /\ call' = [call EXCEPT !.polls = @ - 1, !.counts = CountRoles(st)]
    /\ UNCHANGED <<cfg, slots, slot, threads, host_target_ns, thr, mon, dev, serialOf,
                   files, now, sessions, readBack, report, timing, cap>>

WaitAllSlavesTimeout ==
    /\ call.pc = "wait"
    /\ call.polls = 0
    /\ PrepareFailWith("PTP synchronization failed", call.counts, slot, dev, files)
    /\ UNCHANGED <<cfg, host_target_ns, thr, mon, serialOf, now, sessions, readBack, report, timing, cap>>

(***************************************************************************)
(* _calculate_and_schedule(), lines 378-387: read width, height and fps of *)
(* every slot.  A value latched in an earlier estimation is stale now.     *)
(***************************************************************************)
GetCameraParameters(ok) ==
    /\ call.pc = "params"
    /\ LET devNow == [d \in Dev |->
                        [dev[d] EXCEPT !.latchReg = IF @ = "fresh" THEN "stale" ELSE @]]
       IN IF ok
          THEN /\ dev' = devNow
               /\ call' = [call EXCEPT !.pc = "latch", !.k = 1]
               \* line 390: host_ref_before_ns = time.time_ns()
               /\ timing' = [timing EXCEPT !.host_ref_before_ns = timing.host]
               /\ UNCHANGED <<state, error_message, error_detail, slots, slot, threads, files>>
          ELSE /\ PrepareFail("Failed to get camera parameters", slot, devNow)
               /\ UNCHANGED timing
    /\ UNCHANGED <<cfg, host_target_ns, thr, mon, serialOf, now, sessions, readBack, report, cap>>

(***************************************************************************)
(* lines 389-397: TIMESTAMP_LATCH on slot k; an exception is logged as a   *)
(* warning and the loop goes on.                                           *)
(***************************************************************************)
\* what the clock of device d shows
DeviceClock(d) == timing.host + timing.skew[d]

LatchTimestamp(ok) ==
    /\ call.pc = "latch"
    /\ LET d == slots[call.k]
       IN /\ dev' = [dev EXCEPT ![d].latchReg = IF ok THEN "fresh" ELSE @]
          /\ timing' = [timing EXCEPT
                          !.latch_value[d] = IF ok THEN DeviceClock(d) ELSE @,
                          !.latch_host[d] = timing.host]
    /\ call' = IF call.k < Len(slots) THEN [call EXCEPT !.k = @ + 1]
               ELSE [call EXCEPT !.pc = "read", !.k = 1]
    /\ UNCHANGED <<state, error_message, error_detail, cfg, slots, slot, threads, host_target_ns, thr,
                   mon, serialOf, files, now, sessions, readBack, report, cap>>

(***************************************************************************)
(* lines 396-413: before the first slot read the host clock again and fix  *)
(* host_ref_ns; read TIMESTAMP_LATCH_VALUE of slot k and store the offset; *)
(* after the last slot compute _host_target_ns.  The value the camera      *)
(* returns is a float; the modelled clock values are below 2^53, where     *)
(* int(float) gives the value back.                                        *)
(***************************************************************************)
\* a target that leaves the offset of the device out
CameraTarget_NoOffset(target_ns, delta_ns) == target_ns
\* line 443: self._host_target_ns + slot.delta_ns
CameraTarget(target_ns, delta_ns) == target_ns + delta_ns

ReadLatchValue(ok) ==
    /\ call.pc = "read"
    /\ LET d == slots[call.k]
           bracketed == IF call.k = 1
                        THEN [timing EXCEPT
                                 !.host_ref_after_ns = timing.host,
                                 \* line 397: (before + after) // 2
                                 !.host_ref_ns =
                                     (timing.host_ref_before_ns + timing.host) \div 2]
                        ELSE timing
           offset == [bracketed EXCEPT
                         !.delta_ns[d] = timing.latch_value[d] - bracketed.host_ref_ns]
       IN IF ok
          THEN /\ slot' = [slot EXCEPT ![d].delta_ns = dev[d].latchReg]
               /\ IF call.k < Len(slots)
                  THEN /\ call' = [call EXCEPT !.k = @ + 1]
                       /\ timing' = offset
                       /\ UNCHANGED host_target_ns
                  ELSE /\ call' = [call EXCEPT !.pc = "configure", !.k = 1]
                       /\ host_target_ns' = "set"
                       \* line 413: time.time_ns() + int(start_delay_s * 1_000_000_000),
                       \* for a whole number of seconds
                       /\ timing' = [offset EXCEPT !.host_target_ns =
                                        timing.host + cfg.start_delay_s * 1000000000]
               /\ UNCHANGED <<state, error_message, error_detail, slots, threads, dev, files>>
          ELSE /\ PrepareFail("Failed to get timestamp", slot, dev)
               /\ timing' = bracketed
               /\ UNCHANGED host_target_ns
    /\ UNCHANGED <<cfg, thr, mon, serialOf, now, sessions, readBack, report, cap>>

(***************************************************************************)
(* _configure_action_scheduler(slot k): trigger settings (warnings only),  *)
(* cancel (warning only), then time, interval, commit, each fatal.         *)
(***************************************************************************)
SchedulerFailures == {"none", "time", "interval", "commit"}

SchedulerMessage(f) ==
    CASE f = "time" -> "Failed to set ACTION_SCHEDULER_TIME"
      [] f = "interval" -> "Failed to set ACTION_SCHEDULER_INTERVAL"
      [] OTHER -> "Failed to commit ACTION_SCHEDULER"

\* line 444: round(1_000_000 / fps) for a whole fps other than 0, halves to the even
Interval_us(fps) ==
    LET a == IF fps < 0 THEN -fps ELSE fps
        q == 1000000 \div a
        r == 1000000 % a
        m == IF 2 * r > a \/ (2 * r = a /\ q % 2 = 1) THEN q + 1 ELSE q
    IN IF fps < 0 THEN -m ELSE m

\* a scheduler that commits although writing the interval failed
SchedulerCalls_CommitAnyway(f, camera_target_ns, interval_us, clock) ==
    LET cmd(name, ok, value) == [cmd |-> name, ok |-> ok, value |-> value, clock |-> clock]
    IN <<cmd("cancel", TRUE, 1), cmd("time", f # "time", camera_target_ns)>>
       \o (IF f = "time" THEN <<>>
           ELSE <<cmd("interval", f # "interval", interval_us),
                  cmd("commit", f # "commit", 1)>>)
\* lines 446-467: the ACTION_SCHEDULER_* properties set on the device, in order, up to
\* the first one of TIME, INTERVAL, COMMIT that raises; an exception of CANCEL is a
\* warning, its entry records the attempt
SchedulerCalls(f, camera_target_ns, interval_us, clock) ==
    LET cmd(name, ok, value) == [cmd |-> name, ok |-> ok, value |-> value, clock |-> clock]
    IN <<cmd("cancel", TRUE, 1), cmd("time", f # "time", camera_target_ns)>>
       \o (IF f = "time" THEN <<>>
           ELSE <<cmd("interval", f # "interval", interval_us)>>
                \o (IF f = "interval" THEN <<>> ELSE <<cmd("commit", f # "commit", 1)>>))

ConfigureActionScheduler(cancelOk, f) ==
    /\ call.pc = "configure"
    /\ LET d == slots[call.k]
           cancelled == [dev EXCEPT ![d].armed = IF cancelOk THEN FALSE ELSE @]
           camera_target_ns == CameraTarget(timing.host_target_ns, timing.delta_ns[d])
       IN IF slot[d].trigger_interval_fps = 0
          THEN \* line 444: 1_000_000 / 0 raises ZeroDivisionError, which nothing catches:
               \* prepare() is left by the exception, no _set_error, no _cleanup()
               /\ call' = NoCall
               /\ UNCHANGED <<state, error_message, error_detail, slots, slot, threads, dev,
                              files, timing>>
          ELSE /\ timing' =
                    [timing EXCEPT
                        !.time_reg[d] = IF f = "time" THEN @ ELSE camera_target_ns,
                        !.interval_reg[d] =
                            IF f \in {"time", "interval"} THEN @
                            ELSE Interval_us(slot[d].trigger_interval_fps),
                        !.cmds[d] = @ \o SchedulerCalls(f, camera_target_ns,
                                            Interval_us(slot[d].trigger_interval_fps),
                                            DeviceClock(d))]
               /\ IF f = "none"
                  THEN /\ dev' = [cancelled EXCEPT ![d].armed = TRUE,
                                                   ![d].sched = slot[d].delta_ns]
                       /\ call' = IF call.k < Len(slots) THEN [call EXCEPT !.k = @ + 1]
                                  ELSE [call EXCEPT !.pc = "setup", !.k = 1]
                       /\ UNCHANGED <<state, error_message, error_detail, slots, slot,
                                      threads, files>>
                  ELSE PrepareFail(SchedulerMessage(f), slot, cancelled)
    /\ UNCHANGED <<cfg, host_target_ns, thr, mon, serialOf, now, sessions, readBack, report, cap>>

(***************************************************************************)
(* _setup_recording(), slot k: open the CSV (a failure is a warning),      *)
(* start ffmpeg (MP4), stop the preview, create the sink, stream_setup.    *)
(***************************************************************************)
SetupFailures == {"none", "popen", "stdin", "stream"}

SetupMessage(f) ==
    CASE f = "popen" -> "Failed to start ffmpeg"
      [] f = "stdin" -> "ffmpeg stdin not available"
      [] OTHER -> "Failed to setup recording stream"

SetupRecording(csvOk, f) ==
    /\ call.pc = "setup"
    /\ f \in {"popen", "stdin"} => cfg.output_format = "mp4"
    /\ LET d == slots[call.k]
           csv == [slot[d] EXCEPT !.csv_file = IF csvOk THEN "open" ELSE "none",
                                  !.csv_writer = csvOk,
                                  !.csv_rows = IF csvOk THEN <<CsvHeader>> ELSE @,
                                  !.csv_pos = 0,
                                  !.csv_buffer = IF csvOk THEN <<>> ELSE @]
           opened == IF csvOk THEN OpenTruncate(files, CsvFilename(serialOf[d])) ELSE files
           proc == IF cfg.output_format = "mp4" /\ f # "popen"
                   THEN [csv EXCEPT !.ffmpeg_proc = "running",
                                    !.stdin = IF f = "stdin" THEN "none" ELSE "open"]
                   ELSE csv
           sunk == [proc EXCEPT !.has_sink = TRUE]
           stopped == [dev EXCEPT ![d].streaming = FALSE]
       IN CASE f \in {"popen", "stdin"} ->
                 PrepareFailWith(SetupMessage(f), <<>>, [slot EXCEPT ![d] = proc], dev, opened)
            [] f = "stream" ->
                 PrepareFailWith(SetupMessage(f), <<>>, [slot EXCEPT ![d] = sunk], stopped,
                                 opened)
            [] OTHER ->
                 /\ slot' = [slot EXCEPT ![d] = sunk]
                 /\ files' = opened
                 /\ dev' = [dev EXCEPT ![d].streaming = TRUE, ![d].outq = <<>>]
                 /\ UNCHANGED <<slots, threads>>
                 /\ IF call.k < Len(slots)
                    THEN /\ call' = [call EXCEPT !.k = @ + 1]
                         /\ UNCHANGED <<state, error_message, error_detail>>
                    ELSE /\ call' = NoCall
                         /\ SetState("scheduled")
    /\ UNCHANGED <<cfg, host_target_ns, thr, mon, serialOf, now, sessions, readBack, report, timing, cap>>

(***************************************************************************)
(* start(): reject the call unless scheduled; start one thread per slot,   *)
(* registering it in _threads under the slot's serial; set RECORDING;      *)
(* start the monitor.                                                      *)
(***************************************************************************)
RECURSIVE RegisterThreads(_, _)
RegisterThreads(t, k) ==
    IF k > Len(slots) THEN t
    ELSE LET d == slots[k]
         IN RegisterThreads({p \in t : p[1] # serialOf[d]} \cup {<<serialOf[d], d>>}, k + 1)

Start ==
    /\ call.pc = "none"
    /\ IF state # "scheduled"
       THEN /\ SetError("Not in scheduled state")
            /\ UNCHANGED <<threads, thr, mon, now>>
       ELSE /\ now' = 0
            /\ threads' = RegisterThreads(threads, 1)
            /\ thr' = [d \in Dev |-> IF d \in Range(slots)
                                     THEN [NoThread EXCEPT !.pc = "start"] ELSE thr[d]]
            /\ SetState("recording")
            /\ mon' = "join"
    /\ UNCHANGED <<cfg, slots, slot, host_target_ns, call, dev, serialOf, files,
                   sessions, readBack, report, timing, cap>>

(***************************************************************************)
(* The SRAW writer: struct.pack('<4sI16sqHHHH') and struct.pack('<4sIQq'). *)
(* Bytes are the numbers 0..255.                                           *)
(***************************************************************************)
CSV_FLUSH_INTERVAL == 10
SRAW_MAGIC == <<83, 82, 65, 87>>
FRAM_MAGIC == <<70, 82, 65, 77>>

\* str.encode('ascii') for the characters of the modelled serials
AsciiCode ==
    [c \in DigitSet \cup {"u", "n", "k", "o", "w"} |->
        CASE c = "u" -> 117 [] c = "n" -> 110 [] c = "k" -> 107
          [] c = "o" -> 111 [] c = "w" -> 119
          [] OTHER -> 47 + (CHOOSE i \in 1..10 : Digits[i] = c)]

Encode(str) == [i \in 1..Len(str) |-> AsciiCode[str[i]]]

\* little-endian unsigned (I, Q, H) and two's complement (q) fields
RECURSIVE PackUnsigned(_, _)
PackUnsigned(n, w) == IF w = 0 THEN <<>> ELSE <<n % 256>> \o PackUnsigned(n \div 256, w - 1)

PackSigned(n, w) ==
    IF n >= 0 THEN PackUnsigned(n, w)
    ELSE LET b == PackUnsigned(-n - 1, w) IN [i \in 1..w |-> 255 - b[i]]

\* bytes.ljust(width, b'\x00')
Ljust(b, width) == b \o [i \in 1..(IF Len(b) < width THEN width - Len(b) ELSE 0) |-> 0]

\* a header writer that leaves recording_start_ns at zero
FileHeaderBytes_NoStart(serial, recording_start_ns, width, height, pixel_format) ==
    SRAW_MAGIC \o PackUnsigned(SRAW_VERSION, 4)
        \o Ljust(SubSeq(Encode(serial), 1, IF Len(serial) < 15 THEN Len(serial) ELSE 15), 16)
        \o PackSigned(0, 8)
        \o PackUnsigned(width, 2) \o PackUnsigned(height, 2)
        \o PackUnsigned(pixel_format, 2) \o PackUnsigned(0, 2)

FileHeaderBytes(serial, recording_start_ns, width, height, pixel_format) ==
    SRAW_MAGIC \o PackUnsigned(SRAW_VERSION, 4)
        \o Ljust(SubSeq(Encode(serial), 1, IF Len(serial) < 15 THEN Len(serial) ELSE 15), 16)
        \o PackSigned(recording_start_ns, 8)
        \o PackUnsigned(width, 2) \o PackUnsigned(height, 2)
        \o PackUnsigned(pixel_format, 2) \o PackUnsigned(0, 2)

FrameHeaderBytes(payload_size, frame_index, timestamp_ns) ==
    FRAM_MAGIC \o PackUnsigned(payload_size, 4) \o PackUnsigned(frame_index, 8)
        \o PackSigned(timestamp_ns, 8)

\* f"{n:06d}": the decimal digits of n, padded with zeros to six places
RECURSIVE Decimal(_)
Decimal(n) == IF n < 10 THEN <<Digits[n + 1]>> ELSE Decimal(n \div 10) \o <<Digits[(n % 10) + 1]>>

ZeroPad(n, width) ==
    LET ds == Decimal(n)
    IN [i \in 1..(IF Len(ds) < width THEN width - Len(ds) ELSE 0) |-> "0"] \o ds

\* f"{md.device_frame_number:05}"

\* f"cam{serial}_{frame_count:06d}.raw"
RawFilename(serial, frame_count) ==
    <<"c", "a", "m">> \o serial \o <<"_">> \o ZeroPad(frame_count, 6) \o <<".", "r", "a", "w">>

\* the frame the camera delivers as its n-th: meta data and pixel bytes
DeviceTimestamp(n) == 100 + n
Payload(n) == [i \in 1..(WIDTH * HEIGHT) |-> n % 256]

(***************************************************************************)
(* _worker_mp4 / _worker_raw, lines 599-607 and 674-683: start the         *)
(* acquisition (return at once if that fails), fix the end time.           *)
(***************************************************************************)
WorkerEndTime(t) == t + cfg.start_delay_s + cfg.duration_s

WorkerBegin(d, ok) ==
    /\ thr[d].pc = "start"
    /\ IF ok
       THEN /\ dev' = [dev EXCEPT ![d].acquiring = TRUE, ![d].frame_no = 0]
            /\ thr' = [thr EXCEPT ![d].pc = "loop", ![d].end_time = WorkerEndTime(now)]
            /\ slot' = [slot EXCEPT ![d].frame_count = 0, ![d].raw_files_created = <<>>]
       ELSE /\ thr' = [thr EXCEPT ![d].pc = "done", ![d].exit = "acquisition"]
            /\ UNCHANGED <<dev, slot>>
    /\ UNCHANGED <<state, error_message, error_detail, cfg, slots, threads, host_target_ns, call, mon,
                   serialOf, files, now, sessions, readBack, report, timing, cap>>

\* lines 621-634 / 692-705: append the row to csv_buffer, write the batch when it is full
\* the row of frame n: [frame_no, timestamp], written by csv as text
CsvRow(n, ts) == <<ZeroPad(n, 5), Decimal(ts)>>

\* the batch is written: the buffer is full and the file is still open (writerows on a
\* closed file raises ValueError, which is logged as a warning)
CsvBatchWritten(sl) ==
    sl.csv_writer /\ Len(sl.csv_buffer) + 1 >= CSV_FLUSH_INTERVAL /\ sl.csv_file = "open"

\* cf: where the writing of a batch raises: "none"; "writerows" before a row is written;
\* "partial" in writerows after its first row is written; "flush" in csv_file.flush().
\* The except clause logs a warning, so what was done before the exception stays.
LogCsv(sl, n, cf) ==
    IF ~sl.csv_writer THEN sl
    ELSE LET buf == Append(sl.csv_buffer, CsvRow(n, DeviceTimestamp(n)))
         IN IF ~CsvBatchWritten(sl) \/ cf = "writerows" THEN [sl EXCEPT !.csv_buffer = buf]
            ELSE IF cf = "partial"
                 THEN [sl EXCEPT !.csv_rows = Append(@, buf[1]), !.csv_buffer = buf]
            ELSE IF cf = "flush"
                 THEN [sl EXCEPT !.csv_rows = @ \o buf, !.csv_buffer = <<>>]
            ELSE [sl EXCEPT !.csv_rows = @ \o buf, !.csv_buffer = <<>>,
                            !.csv_pos = Len(sl.csv_rows) + Len(buf)]

\* the directory after the CSV logging of frame n by the slot of the given serial
LogCsvFiles(fs, sl, n, serial, cf) ==
    IF CsvBatchWritten(sl) /\ cf = "none"
    THEN FlushCsv(fs, [sl EXCEPT !.csv_rows = @ \o Append(sl.csv_buffer, CsvRow(n, DeviceTimestamp(n)))],
                  CsvFilename(serial))
    ELSE fs

\* what an iteration does with the popped buffer of frame n, in the order of lines
\* 616-648 / 687-758.  logs: a row is appended (csv_writer is not None); sink: "none" if
\* the iteration ends before the write, else the write is called.
IterationEvents_SinkFirst(n, logs, sink) ==
    <<[ev |-> "pop", n |-> n]>>
        \o (IF sink # "none" THEN <<[ev |-> "sink", n |-> n]>> ELSE <<>>)
        \o (IF logs THEN <<[ev |-> "log", n |-> n]>> ELSE <<>>)
        \o <<[ev |-> "release", n |-> n]>>

IterationEvents(n, logs, sink) ==
    <<[ev |-> "pop", n |-> n]>>
        \o (IF logs THEN <<[ev |-> "log", n |-> n]>> ELSE <<>>)
        \o (IF sink # "none" THEN <<[ev |-> "sink", n |-> n]>> ELSE <<>>)
        \o <<[ev |-> "release", n |-> n]>>

\* the loop condition, lines 610 / 686: leave the loop at the end time
WorkerDeadline(d) ==
    /\ thr[d].pc = "loop"
    /\ now >= thr[d].end_time
    /\ thr' = [thr EXCEPT ![d].pc = "stop", ![d].exit = "deadline"]
    /\ UNCHANGED <<state, error_message, error_detail, cfg, slots, slot, threads, host_target_ns, call,
                   mon, dev, serialOf, files, now, sessions, readBack, report, timing, cap>>

\* the slot whose ffmpeg process worker d polls (its own, line 597)
PolledSlot(d) == d

(***************************************************************************)
(* One iteration of the loop of _worker_mp4, lines 611-648.  An iteration  *)
(* that pops nothing sleeps and changes nothing.  dies: ffmpeg terminates  *)
(* between the poll and the write, which then raises BrokenPipeError.      *)
(* cf: where the writing of a batch of rows raises (see LogCsv).           *)
(***************************************************************************)
WorkerMp4(d, dies, cf) ==
    /\ thr[d].pc = "loop"
    /\ cfg.output_format = "mp4"
    /\ now < thr[d].end_time
    /\ IF slot[PolledSlot(d)].ffmpeg_proc \in {"exited", "finished"}
       THEN /\ ~dies
            /\ thr' = [thr EXCEPT ![d].pc = "stop", ![d].exit = "ffmpeg"]
            /\ UNCHANGED <<slot, dev, files>>
       ELSE /\ dev[d].outq # <<>>
            /\ cf # "none" => CsvBatchWritten(slot[d])
            /\ LET n == Head(dev[d].outq)
                   logged == LogCsv(slot[d], n, cf)
                   events == IterationEvents(n, slot[d].csv_writer, "write")
               IN /\ dev' = [dev EXCEPT ![d].outq = Tail(@)]
                  /\ files' = LogCsvFiles(files, slot[d], n, serialOf[d], cf)
                  /\ IF dies \/ slot[d].stdin # "open"
                     THEN /\ slot' = [slot EXCEPT
                                ![d] = [logged EXCEPT !.ffmpeg_proc =
                                            IF dies THEN "exited" ELSE @]]
                          /\ thr' = [thr EXCEPT ![d].pc = "stop", ![d].exit = "write_error",
                                                ![d].trace = @ \o events]
                     ELSE /\ slot' = [slot EXCEPT ![d] = [logged EXCEPT !.frame_count = @ + 1]]
                          /\ thr' = [thr EXCEPT ![d].wrote = Append(@, n),
                                                ![d].trace = @ \o events]
    /\ UNCHANGED <<state, error_message, error_detail, cfg, slots, threads, host_target_ns, call, mon,
                   serialOf, now, sessions, readBack, report, timing, cap>>

(***************************************************************************)
(* One iteration of the loop of _worker_raw, lines 687-758, for a popped   *)
(* frame.  openOk: open() of a new file succeeds.  wf: where the write     *)
(* raises OSError: "none", at the "header" or at the "payload".  File      *)
(* buffering is not modelled: a write reaches the file at once.            *)
(* cf: where the writing of a batch of rows raises (see LogCsv).           *)
(***************************************************************************)
NeedNewFile(sl, K) ==
    sl.raw_file = <<>> \/ (K > 0 /\ sl.frame_count > 0 /\ sl.frame_count % K = 0)

WorkerRaw(d, openOk, wf, cf) ==
    /\ thr[d].pc = "loop"
    /\ cfg.output_format = "raw"
    /\ now < thr[d].end_time
    /\ dev[d].outq # <<>>
    /\ cf # "none" => CsvBatchWritten(slot[d])
    /\ LET n == Head(dev[d].outq)
           timestamp == DeviceTimestamp(n)
           payload == Payload(n)
           logged == LogCsv(slot[d], n, cf)
           csvfs == LogCsvFiles(files, slot[d], n, serialOf[d], cf)
           split == NeedNewFile(logged, cfg.frames_per_file)
           name == RawFilename(serialOf[d], logged.frame_count)
       IN /\ dev' = [dev EXCEPT ![d].outq = Tail(@)]
          /\ IF split /\ ~openOk
             THEN /\ wf = "none"
                  /\ slot' = [slot EXCEPT ![d] = [logged EXCEPT
                                 !.raw_file = <<>>,
                                 !.raw_file_start_frame = logged.frame_count]]
                  /\ thr' = [thr EXCEPT ![d].pc = "stop", ![d].exit = "open_error",
                                        ![d].trace = @ \o IterationEvents(n, slot[d].csv_writer,
                                                                          "none")]
                  /\ files' = csvfs
             ELSE LET opened ==
                        IF split
                        THEN [logged EXCEPT
                                 !.raw_file = name,
                                 !.raw_pos = FILE_HEADER_SIZE,
                                 !.raw_file_start_frame = logged.frame_count,
                                 !.raw_files_created = Append(@, name)]
                        ELSE logged
                      fs == IF split
                            THEN [OpenTruncate(csvfs, name) EXCEPT
                                     ![name] = FileHeaderBytes(serialOf[d], timestamp,
                                                   WIDTH, HEIGHT, PIXEL_FORMAT_BAYER_GR8)]
                            ELSE csvfs
                      header == FrameHeaderBytes(Len(payload), opened.frame_count, timestamp)
                      bytes == CASE wf = "header" -> <<>>
                                 [] wf = "payload" -> header
                                 [] OTHER -> header \o payload
                  IN /\ files' = [fs EXCEPT ![opened.raw_file] =
                                      WriteAt(@, opened.raw_pos, bytes)]
                     /\ slot' = [slot EXCEPT ![d] = [opened EXCEPT
                                    !.raw_pos = @ + Len(bytes),
                                    !.frame_count = IF wf = "none" THEN @ + 1 ELSE @]]
                     /\ thr' = [thr EXCEPT
                                  ![d].pc = IF wf = "none" THEN @ ELSE "stop",
                                  ![d].exit = IF wf = "none" THEN @ ELSE "write_error",
                                  ![d].wrote = IF wf = "none" THEN Append(@, n) ELSE @,
                                  ![d].trace = @ \o IterationEvents(n, slot[d].csv_writer,
                                                                    "write")]
    /\ UNCHANGED <<state, error_message, error_detail, cfg, slots, threads, host_target_ns, call, mon,
                   serialOf, now, sessions, readBack, report, timing, cap>>

(***************************************************************************)
(* The stop processing of a worker, lines 650-666 / 760-782: close the raw *)
(* file (RAW) or flush stdin (MP4), acquisition_stop, stream_stop.         *)
(***************************************************************************)
\* the release calls of the stop processing, in order; failing: the calls that raise
WorkerStopCalls(sl, fmt, failing) ==
    (IF fmt = "mp4" THEN <<"stdin_flush">>
     ELSE IF sl.raw_file # <<>>
          THEN <<"raw_flush">> \o (IF "raw_flush" \in failing THEN <<>> ELSE <<"raw_close">>)
          ELSE <<>>)
    \o <<"acquisition_stop", "stream_stop">>

WorkerStop(d, failing) ==
    /\ thr[d].pc = "stop"
    /\ slot' = [slot EXCEPT
                  ![d].raw_file = IF cfg.output_format = "raw" THEN <<>> ELSE @,
                  ![d].released = @ \o WorkerStopCalls(slot[d], cfg.output_format, failing)]
    /\ dev' = [dev EXCEPT
                 ![d].acquiring = IF {"acquisition_stop", "stream_stop"} \subseteq failing
                                  THEN @ ELSE FALSE,
                 ![d].streaming = IF "stream_stop" \in failing THEN @ ELSE FALSE]
    /\ thr' = [thr EXCEPT ![d].pc = "done"]
    /\ UNCHANGED <<state, error_message, error_detail, cfg, slots, threads, host_target_ns, call, mon,
                   serialOf, files, now, sessions, readBack, report, timing, cap>>

(***************************************************************************)
(* _monitor_completion(): join the threads registered in _threads, then    *)
(* STOPPING, _cleanup(), IDLE.                                             *)
(***************************************************************************)
\* a monitor that waits for a thread of every view slot, started or not
JoinedThreads_AllSlots == Dev
JoinedThreads == {p[2] : p \in threads}

MonitorJoin ==
    /\ mon = "join"
    /\ \A d \in JoinedThreads : thr[d].pc = "done"
    /\ SetState("stopping")
    /\ mon' = "cleanup"
    /\ UNCHANGED <<cfg, slots, slot, threads, host_target_ns, call, thr, dev, serialOf,
                   files, now, sessions, readBack, report, timing, cap>>

MonitorCleanup(failing) ==
    /\ mon = "cleanup"
    /\ Cleanup(slot, dev, files, cfg.output_format, failing)
    /\ mon' = "finish"
    /\ UNCHANGED <<state, error_message, error_detail, cfg, host_target_ns, call, thr, serialOf,
                   now, sessions, readBack, report, timing, cap>>

MonitorFinish ==
    /\ mon = "finish"
    /\ SetState("idle")
    /\ mon' = "done"
    /\ UNCHANGED <<cfg, slots, slot, threads, host_target_ns, call, thr, dev, serialOf,
                   files, now, sessions, readBack, report, timing, cap>>

(***************************************************************************)
(* The environment.                                                        *)
(***************************************************************************)
\* _RecordingQueueSinkListener.frames_queued: does nothing
FramesQueued(dv) == dv

\* an armed, acquiring camera exposes a frame; the sink queues it if a buffer is free
DeviceFrame(d, max) ==
    /\ dev[d].acquiring /\ dev[d].armed /\ dev[d].mode = "run"
    /\ dev[d].frame_no < max
    /\ dev' = [dev EXCEPT ![d] =
                 IF Len(dev[d].outq) < QUEUE_BUFFER_COUNT
                 THEN FramesQueued([dev[d] EXCEPT !.frame_no = @ + 1,
                                                  !.outq = Append(@, dev[d].frame_no)])
                 ELSE [dev[d] EXCEPT !.frame_no = @ + 1]]
    /\ UNCHANGED <<state, error_message, error_detail, cfg, slots, slot, threads, host_target_ns, call,
                   thr, mon, serialOf, files, now, sessions, readBack, report, timing, cap>>

\* the ffmpeg process of a slot terminates by itself during the recording
FfmpegDies(d) ==
    /\ slot[d].ffmpeg_proc = "running"
    /\ thr[d].pc = "loop"
    /\ slot' = [slot EXCEPT ![d].ffmpeg_proc = "exited"]
    /\ UNCHANGED <<state, error_message, error_detail, cfg, slots, threads, host_target_ns, call, thr,
                   mon, dev, serialOf, files, now, sessions, readBack, report, timing, cap>>

\* time.monotonic() advances; the clock is followed while a worker is to read it
Tick ==
    /\ \E d \in Dev : \/ thr[d].pc = "start" /\ now < MaxTime
                      \/ thr[d].pc = "loop" /\ now < thr[d].end_time
    /\ now' = now + 1
    /\ UNCHANGED <<state, error_message, error_detail, cfg, slots, slot, threads, host_target_ns, call,
                   thr, mon, dev, serialOf, files, sessions, readBack, report, timing, cap>>

\* time.time_ns() advances, and the clocks of the devices with it; the clock is
\* followed while prepare() estimates the offsets and programs the schedules
WallAdvance ==
    /\ call.pc \in {"latch", "read", "configure"}
    /\ timing.host < MaxWall
    /\ timing' = [timing EXCEPT !.host = @ + 1]
    /\ UNCHANGED <<state, error_message, error_detail, cfg, slots, slot, threads, host_target_ns,
                   call, thr, mon, dev, serialOf, files, now, sessions, readBack, report, cap>>

(***************************************************************************)
(* The controller after __init__, cameras in preview.                      *)
(***************************************************************************)
NewDev == [latchReg |-> "unset", armed |-> FALSE, sched |-> "none", streaming |-> TRUE,
           acquiring |-> FALSE, outq |-> <<>>, mode |-> "run", frame_no |-> 0]

Init ==
    /\ state = "idle"
    /\ error_message = ""
    /\ error_detail = <<>>
    /\ cfg = [start_delay_s |-> 0, duration_s |-> 0, output_format |-> "mp4",
              frames_per_file |-> DEFAULT_FRAMES_PER_FILE]
    /\ slots = <<>>
    /\ slot = [d \in Dev |-> NewSlot]
    /\ threads = {}
    /\ host_target_ns = "unset"
    /\ call = NoCall
    /\ thr = [d \in Dev |-> NoThread]
    /\ mon = "none"
    /\ dev = [d \in Dev |-> NewDev]
    /\ serialOf \in SerialAssignments
    /\ files = NoFiles
    /\ now = 0
    /\ sessions = 0
    /\ readBack = NotRead
    /\ report = NoReport
    /\ timing = NoTiming
    /\ cap = NoCap

(***************************************************************************)
(* The SRAW reader of s13_raw_tool.py.                                     *)
(***************************************************************************)
\* values of 2^24 and more are read as Huge (no modelled writer produces them)
Huge == 256 * 256 * 256

UnpackUnsigned(b) ==
    IF \E i \in 4..Len(b) : b[i] # 0 THEN Huge
    ELSE b[1] + 256 * (IF Len(b) > 1 THEN b[2] ELSE 0) + 65536 * (IF Len(b) > 2 THEN b[3] ELSE 0)

UnpackSigned(b) ==
    IF b[Len(b)] < 128 THEN UnpackUnsigned(b)
    ELSE -UnpackUnsigned([i \in 1..Len(b) |-> 255 - b[i]]) - 1

\* read_file_header raises ValueError ("File too small for FileHeader")
FileTooSmall(c) == Len(c) < FILE_HEADER_SIZE

\* read_file_header: the fields of the 40 bytes
ReadFileHeader(c) ==
         LET serial_bytes == SubSeq(c, 9, 24)
             nul == {i \in 1..16 : serial_bytes[i] = 0}
             cut == IF nul = {} THEN 16 ELSE (CHOOSE i \in nul : \A j \in nul : i <= j) - 1
         IN [magic |-> SubSeq(c, 1, 4),
             version |-> UnpackUnsigned(SubSeq(c, 5, 8)),
             camera_serial |-> SubSeq(serial_bytes, 1, cut),
             recording_start_ns |-> UnpackSigned(SubSeq(c, 25, 32)),
             width |-> UnpackUnsigned(SubSeq(c, 33, 34)),
             height |-> UnpackUnsigned(SubSeq(c, 35, 36)),
             pixel_format |-> UnpackUnsigned(SubSeq(c, 37, 38)),
             reserved |-> UnpackUnsigned(SubSeq(c, 39, 40))]

\* iter_frame_infos from offset pos: a short header read ends the iteration;
\* the payload is skipped by a seek (payload: the bytes found there)
RECURSIVE IterFrameInfos(_, _)
IterFrameInfos(c, pos) ==
    IF Len(c) - pos < FRAME_HEADER_SIZE THEN <<>>
    ELSE LET payload_size == UnpackUnsigned(SubSeq(c, pos + 5, pos + 8))
             body == pos + FRAME_HEADER_SIZE
             last == IF body + payload_size > Len(c) THEN Len(c) ELSE body + payload_size
         IN <<[frame_index |-> UnpackUnsigned(SubSeq(c, pos + 9, pos + 16)),
               timestamp_ns |-> UnpackSigned(SubSeq(c, pos + 17, pos + 24)),
               payload_size |-> payload_size,
               file_offset |-> pos,
               payload |-> SubSeq(c, body + 1, last)]>>
            \o (IF payload_size = Huge THEN <<>>
                ELSE IterFrameInfos(c, body + payload_size))

\* int(m.group(2))
RECURSIVE ParseInt(_)
ParseInt(ds) ==
    IF ds = <<>> THEN 0
    ELSE 10 * ParseInt(SubSeq(ds, 1, Len(ds) - 1))
         + (CHOOSE i \in 0..9 : Digits[i + 1] = ds[Len(ds)])

AllDigits(str) == str # <<>> /\ \A i \in 1..Len(str) : str[i] \in DigitSet

\* _RAW_PATTERN = ^cam(\d+)_(\d+)\.raw$ : whether the name matches, and the two groups
MatchRawPattern(name) ==
    LET L == Len(name)
        mid == IF L > 7 THEN SubSeq(name, 4, L - 4) ELSE <<>>
        us == {i \in 1..Len(mid) : mid[i] = "_"}
    IN IF /\ L > 7
          /\ SubSeq(name, 1, 3) = <<"c", "a", "m">>
          /\ SubSeq(name, L - 3, L) = <<".", "r", "a", "w">>
          /\ Cardinality(us) = 1
          /\ LET u == CHOOSE i \in us : TRUE
             IN AllDigits(SubSeq(mid, 1, u - 1)) /\ AllDigits(SubSeq(mid, u + 1, Len(mid)))
       THEN LET u == CHOOSE i \in us : TRUE
            IN [matched |-> TRUE, serial |-> SubSeq(mid, 1, u - 1),
                start_frame |-> ParseInt(SubSeq(mid, u + 1, Len(mid)))]
       ELSE [matched |-> FALSE, serial |-> <<>>, start_frame |-> 0]

\* raw_list.sort(key=start_frame) of the names of a set
RECURSIVE SortByStartFrame(_)
SortByStartFrame(names) ==
    IF names = {} THEN <<>>
    ELSE LET m == CHOOSE x \in names :
                    \A y \in names : MatchRawPattern(x).start_frame <= MatchRawPattern(y).start_frame
         IN <<m>> \o SortByStartFrame(names \ {m})

\* discover_session_files(dir)[serial].raw_files; <<>> if the serial is not in the map
DiscoverRawFiles(fs, serial) ==
    SortByStartFrame({name \in DOMAIN fs :
                        /\ MatchRawPattern(name).matched
                        /\ MatchRawPattern(name).serial = serial})

\* _validate_camera, lines 277-294: the frame infos of the files, concatenated
RECURSIVE CollectFrames(_, _)
CollectFrames(fs, names) ==
    IF names = <<>> THEN <<>>
    ELSE (IF FileTooSmall(fs[Head(names)]) THEN <<>>
          ELSE IterFrameInfos(fs[Head(names)], FILE_HEADER_SIZE))
         \o CollectFrames(fs, Tail(names))

\* the raw tool reads the files of one camera of the finished session
ReadSession(d) ==
    /\ state = "idle" /\ mon = "done"
    /\ \A e \in Dev : ~Running(e)
    /\ cfg.output_format = "raw"
    /\ readBack' = [done |-> TRUE, serial |-> serialOf[d],
                    raw_files |-> DiscoverRawFiles(files, serialOf[d]),
                    frames |-> CollectFrames(files, DiscoverRawFiles(files, serialOf[d]))]
    /\ UNCHANGED <<state, error_message, error_detail, cfg, slots, slot, threads, host_target_ns, call,
                   thr, mon, dev, serialOf, files, now, sessions, report, timing, cap>>

(***************************************************************************)
(* The commands of the raw tool: dump, validate, sync-check.               *)
(***************************************************************************)
PIXEL_FORMAT_BAYER_GR16 == 1
PIXEL_FORMAT_BGR8 == 2

\* PIXEL_FORMAT_BPP.get(pixel_format, 1)
PixelFormatBpp(pixel_format) ==
    CASE pixel_format = PIXEL_FORMAT_BAYER_GR8 -> 1
      [] pixel_format = PIXEL_FORMAT_BAYER_GR16 -> 2
      [] pixel_format = PIXEL_FORMAT_BGR8 -> 3
      [] OTHER -> 1

\* _CSV_PATTERN = ^cam(\d+)\.csv$ : whether the name matches, and the group
MatchCsvPattern(name) ==
    LET L == Len(name)
    IN IF /\ L > 7
          /\ SubSeq(name, 1, 3) = <<"c", "a", "m">>
          /\ SubSeq(name, L - 3, L) = <<".", "c", "s", "v">>
          /\ AllDigits(SubSeq(name, 4, L - 4))
       THEN [matched |-> TRUE, serial |-> SubSeq(name, 4, L - 4)]
       ELSE [matched |-> FALSE, serial |-> <<>>]

\* the order of str on digit strings, which sorted() uses for the serials
RECURSIVE StrLess(_, _)
StrLess(a, b) ==
    IF b = <<>> THEN FALSE
    ELSE IF a = <<>> THEN TRUE
    ELSE IF a[1] = b[1] THEN StrLess(Tail(a), Tail(b))
    ELSE (CHOOSE i \in 1..10 : Digits[i] = a[1]) < (CHOOSE i \in 1..10 : Digits[i] = b[1])

RECURSIVE SortStrings(_)
SortStrings(S) ==
    IF S = {} THEN <<>>
    ELSE LET m == CHOOSE x \in S : \A y \in S \ {x} : StrLess(x, y)
         IN <<m>> \o SortStrings(S \ {m})

\* discover_session_files: the serials of the session map, in its order
SessionSerials(fs) ==
    SortStrings({MatchRawPattern(name).serial : name \in {n \in DOMAIN fs : MatchRawPattern(n).matched}}
                \cup {MatchCsvPattern(name).serial :
                         name \in {n \in DOMAIN fs : MatchCsvPattern(n).matched}})

\* SessionFiles.csv_path is not None
HasCsv(fs, serial) == CsvFilename(serial) \in DOMAIN fs

\* read_csv_timestamps: the first row is skipped, rows of fewer than two fields are
\* skipped, int(row[1]) raises ValueError on a field that is not a number
ReadCsvTimestamps(c) ==
    LET kept == IF c = <<>> THEN <<>> ELSE SelectSeq(Tail(c), LAMBDA row : Len(row) >= 2)
    IN IF \E i \in 1..Len(kept) : ~AllDigits(kept[i][2])
       THEN [raised |-> TRUE, rows |-> <<>>]
       ELSE [raised |-> FALSE,
             rows |-> [i \in 1..Len(kept) |-> <<kept[i][1], ParseInt(kept[i][2])>>]]

\* the verdict of one check and the frame or position its message cites (-1: none)
Verdict(verdict, cite) == [verdict |-> verdict, cite |-> cite]

\* the least element of a non-empty set of integers
Least(S) == CHOOSE x \in S : \A y \in S : x <= y

\* V1, V2: magic and version of every file header read
CheckV1(file_headers) ==
    IF \A i \in 1..Len(file_headers) : file_headers[i].magic = SRAW_MAGIC THEN Verdict("PASS", -1) ELSE Verdict("FAIL", -1)

CheckV2(file_headers) ==
    IF \A i \in 1..Len(file_headers) : file_headers[i].version = SRAW_VERSION
    THEN Verdict("PASS", -1) ELSE Verdict("FAIL", -1)

\* V3, lines 330-351: the re-scan of a file from offset 40; the frame_index of the
\* frame headers whose magic is not FRAM
RECURSIVE MagicErrors(_, _)
MagicErrors(c, pos) ==
    IF Len(c) - pos < FRAME_HEADER_SIZE THEN <<>>
    ELSE LET payload_size == UnpackUnsigned(SubSeq(c, pos + 5, pos + 8))
         IN (IF SubSeq(c, pos + 1, pos + 4) # FRAM_MAGIC
             THEN <<UnpackUnsigned(SubSeq(c, pos + 9, pos + 16))>> ELSE <<>>)
            \o (IF payload_size = Huge THEN <<>>
                ELSE MagicErrors(c, pos + FRAME_HEADER_SIZE + payload_size))

RECURSIVE AllMagicErrors(_, _)
AllMagicErrors(fs, names) ==
    IF names = <<>> THEN <<>>
    ELSE MagicErrors(fs[Head(names)], FILE_HEADER_SIZE) \o AllMagicErrors(fs, Tail(names))

CheckV3(magic_errors) == IF magic_errors = <<>> THEN Verdict("PASS", -1) ELSE Verdict("FAIL", magic_errors[1])

\* V4, lines 354-364: the header the expected payload size is taken from
RefHeader(file_headers) == file_headers[1]

CheckV4(file_headers, all_frames) ==
    LET ref_header == RefHeader(file_headers)
        bpp == PixelFormatBpp(ref_header.pixel_format)
        expected_payload == ref_header.width * ref_header.height * bpp
        bad_payload == SelectSeq(all_frames, LAMBDA fi : fi.payload_size # expected_payload)
    IN IF bad_payload = <<>> THEN Verdict("PASS", -1) ELSE Verdict("FAIL", bad_payload[1].frame_index)

\* a V5 that asks for consecutive frame_index values from any start
CheckV5_AnyStart(all_frames) ==
    LET gaps == {i \in 2..Len(all_frames) :
                    all_frames[i].frame_index # all_frames[i - 1].frame_index + 1}
    IN IF gaps = {} THEN Verdict("PASS", -1) ELSE Verdict("FAIL", Least(gaps) - 1)
\* V5, lines 367-375: the first position whose frame_index is not the position
CheckV5(all_frames) ==
    LET gaps == {i \in 1..Len(all_frames) : all_frames[i].frame_index # i - 1}
    IN IF gaps = {} THEN Verdict("PASS", -1) ELSE Verdict("FAIL", Least(gaps) - 1)

\* V6, lines 378-386: the comparison of a frame with its predecessor
NotIncreasing_Equal(later, earlier) == later < earlier
NotIncreasing(later, earlier) == later <= earlier

CheckV6(all_frames) ==
    LET bad == {i \in 2..Len(all_frames) :
                    NotIncreasing(all_frames[i].timestamp_ns, all_frames[i - 1].timestamp_ns)}
    IN IF bad = {} THEN Verdict("PASS", -1) ELSE Verdict("FAIL", all_frames[Least(bad)].frame_index)

\* V7, V8, lines 389-412
CheckV7(csv_rows, all_frames) ==
    IF Len(csv_rows) = Len(all_frames) THEN Verdict("PASS", -1) ELSE Verdict("FAIL", -1)

CheckV8(csv_rows, all_frames) ==
    LET min_len == IF Len(csv_rows) < Len(all_frames) THEN Len(csv_rows) ELSE Len(all_frames)
        bad == {i \in 1..min_len : csv_rows[i][2] # all_frames[i].timestamp_ns}
    IN IF bad = {} THEN Verdict("PASS", -1) ELSE Verdict("FAIL", Least(bad) - 1)

CheckIds == {"V1", "V2", "V3", "V4", "V5", "V6", "V7", "V8"}

\* what _validate_camera printed for one camera; raised: it ended with an exception
NotValidated(serial) ==
    [serial |-> serial, reached |-> FALSE, raised |-> FALSE, raw_files |-> <<>>,
     frames |-> <<>>, read_errors |-> 0, checks |-> [v \in CheckIds |-> Verdict("none", -1)]]

ValidateCamera(fs, serial) ==
    LET raw_files == DiscoverRawFiles(fs, serial)
        readable == SelectSeq(raw_files, LAMBDA name : ~FileTooSmall(fs[name]))
        file_headers == [i \in 1..Len(readable) |-> ReadFileHeader(fs[readable[i]])]
        all_frames == CollectFrames(fs, raw_files)
        csv == IF HasCsv(fs, serial) THEN ReadCsvTimestamps(fs[CsvFilename(serial)])
               ELSE [raised |-> FALSE, rows |-> <<>>]
        seen == [NotValidated(serial) EXCEPT !.reached = TRUE, !.raw_files = raw_files,
                                             !.read_errors = Len(raw_files) - Len(readable)]
    IN IF raw_files = <<>> \/ file_headers = <<>> THEN seen
       ELSE IF csv.raised THEN [seen EXCEPT !.raised = TRUE]
       ELSE [seen EXCEPT
               !.frames = all_frames,
               !.checks = [v \in CheckIds |->
                   CASE v = "V1" -> CheckV1(file_headers)
                     [] v = "V2" -> CheckV2(file_headers)
                     [] v = "V3" -> CheckV3(AllMagicErrors(fs, raw_files))
                     [] v = "V4" -> CheckV4(file_headers, all_frames)
                     [] v = "V5" -> CheckV5(all_frames)
                     [] v = "V6" -> CheckV6(all_frames)
                     [] v = "V7" -> IF HasCsv(fs, serial) THEN CheckV7(csv.rows, all_frames)
                                    ELSE Verdict("SKIP", -1)
                     [] OTHER -> IF HasCsv(fs, serial) THEN CheckV8(csv.rows, all_frames)
                                 ELSE Verdict("SKIP", -1)]]

\* cmd_validate: the cameras in the order of the session map; an exception raised for
\* one camera ends the command
ValidateSession(fs) ==
    LET order == SessionSerials(fs)
        res == [i \in 1..Len(order) |-> ValidateCamera(fs, order[i])]
        raisedAt == {i \in 1..Len(order) : res[i].raised}
        cams == [i \in 1..Len(order) |->
                    IF raisedAt # {} /\ i > Least(raisedAt) THEN NotValidated(order[i])
                    ELSE res[i]]
        \* the fail count _validate_camera returns
        fails(cam) ==
            cam.read_errors + Cardinality({v \in CheckIds : cam.checks[v].verdict = "FAIL"})
    IN [NoReport EXCEPT
          !.cmd = "validate", !.serials = order, !.cams = cams,
          !.exit = IF order = <<>> THEN "EXIT_ERROR"
                   ELSE IF raisedAt # {} THEN "raised"
                   ELSE IF \A i \in 1..Len(order) : fails(cams[i]) = 0 THEN "EXIT_OK"
                   ELSE "EXIT_FAIL"]

\* cmd_dump of one raw file: the frames listed; EXIT_ERROR if the file header is short
Dump(fs, name) ==
    [NoReport EXCEPT
        !.cmd = "dump", !.file = name,
        !.frames = IF FileTooSmall(fs[name]) THEN <<>>
                   ELSE IterFrameInfos(fs[name], FILE_HEADER_SIZE),
        !.exit = IF FileTooSmall(fs[name]) THEN "EXIT_ERROR" ELSE "EXIT_OK"]

\* ts_map of cmd_sync_check: frame number -> timestamp, a later row replaces an earlier
TsMap(rows) ==
    [frame_num \in {rows[i][1] : i \in 1..Len(rows)} |->
        rows[CHOOSE i \in 1..Len(rows) :
                /\ rows[i][1] = frame_num
                /\ \A j \in (i + 1)..Len(rows) : rows[j][1] # frame_num][2]]

\* sorted(common_frames, key=lambda x: int(x))
RECURSIVE SortByInt(_)
SortByInt(S) ==
    IF S = {} THEN <<>>
    ELSE LET m == CHOOSE x \in S : \A y \in S : ParseInt(x) <= ParseInt(y)
         IN <<m>> \o SortByInt(S \ {m})

\* int(threshold_ms * 1_000_000); the threshold is given in tenths of a nanosecond
ThresholdNs(tenths) == IF tenths >= 0 THEN tenths \div 10 ELSE -((-tenths) \div 10)

\* the comparison of a spread with the threshold, line 510
Exceeds_OrEqual(diff, threshold_ns) == diff >= threshold_ns
Exceeds(diff, threshold_ns) == diff > threshold_ns

SyncCheck(fs, tenths) ==
    LET threshold_ns == ThresholdNs(tenths)
        cameras == SelectSeq(SessionSerials(fs), LAMBDA serial : HasCsv(fs, serial))
        read == [i \in 1..Len(cameras) |-> ReadCsvTimestamps(fs[CsvFilename(cameras[i])])]
        camera_data == [i \in 1..Len(cameras) |-> TsMap(read[i].rows)]
        common_frames == IF cameras = <<>> THEN {}
                         ELSE {frame_num \in DOMAIN camera_data[1] :
                                 \A i \in 1..Len(cameras) : frame_num \in DOMAIN camera_data[i]}
        common_frames_sorted == SortByInt(common_frames)
        ts_values(frame_num) == {camera_data[i][frame_num] : i \in 1..Len(cameras)}
        diff(frame_num) ==
            (CHOOSE x \in ts_values(frame_num) : \A y \in ts_values(frame_num) : x >= y)
            - Least(ts_values(frame_num))
        result == [NoSync EXCEPT !.cameras = cameras, !.threshold_arg = tenths,
                                 !.threshold_ns = threshold_ns]
        done == [result EXCEPT
                    !.common = common_frames_sorted,
                    !.diffs = [k \in 1..Len(common_frames_sorted) |->
                                  diff(common_frames_sorted[k])],
                    !.violations = SelectSeq(common_frames_sorted,
                                       LAMBDA frame_num : Exceeds(diff(frame_num), threshold_ns))]
    IN CASE \E i \in 1..Len(cameras) : read[i].raised ->
              [NoReport EXCEPT !.cmd = "sync-check", !.sync = result, !.exit = "raised"]
         [] Len(cameras) < 2 ->
              [NoReport EXCEPT !.cmd = "sync-check", !.sync = result, !.exit = "EXIT_ERROR"]
         [] \E frame_num \in common_frames : ~AllDigits(frame_num) ->
              [NoReport EXCEPT !.cmd = "sync-check", !.sync = result, !.exit = "raised"]
         [] common_frames = {} ->
              [NoReport EXCEPT !.cmd = "sync-check", !.sync = result, !.exit = "EXIT_ERROR"]
         [] OTHER ->
              [NoReport EXCEPT !.cmd = "sync-check", !.sync = done,
                               !.exit = IF done.violations = <<>> THEN "EXIT_OK"
                                        ELSE "EXIT_FAIL"]

\* build_frame_plan: timestamp_ns <= t_first + mp4_frame * interval_ns, with
\* interval_ns = 1_000_000_000 / fps kept exact as a quotient and a remainder
NotAfterTarget(timestamp_ns, t_first, mp4_frame, fps) ==
    timestamp_ns - t_first
        <= mp4_frame * (1000000000 \div fps) + (mp4_frame * (1000000000 % fps)) \div fps

\* build_frame_plan: t_target > timestamp_ns, t_target = t_first + mp4_frame * interval_ns
TargetAfter(timestamp_ns, t_first, mp4_frame, fps) ==
    LET whole == mp4_frame * (1000000000 \div fps)
                    + (mp4_frame * (1000000000 % fps)) \div fps
    IN \/ whole > timestamp_ns - t_first
       \/ whole = timestamp_ns - t_first /\ (mp4_frame * (1000000000 % fps)) % fps # 0

\* the inner loop of build_frame_plan: advance raw_idx while the next frame is not
\* after the target (raw_idx counts from 0)
RECURSIVE AdvanceRawIdx(_, _, _, _)
AdvanceRawIdx(locations, raw_idx, mp4_frame, fps) ==
    IF /\ raw_idx + 1 < Len(locations)
       /\ NotAfterTarget(locations[raw_idx + 2].timestamp_ns, locations[1].timestamp_ns,
                         mp4_frame, fps)
    THEN AdvanceRawIdx(locations, raw_idx + 1, mp4_frame, fps)
    ELSE raw_idx

\* the outer loop of build_frame_plan: past t_last append raw_idx and stop
RECURSIVE PlanLoop(_, _, _, _)
PlanLoop(locations, raw_idx, mp4_frame, fps) ==
    IF TargetAfter(locations[Len(locations)].timestamp_ns, locations[1].timestamp_ns,
                   mp4_frame, fps)
    THEN <<raw_idx>>
    ELSE LET floor_idx == AdvanceRawIdx(locations, raw_idx, mp4_frame, fps)
         IN <<floor_idx>> \o PlanLoop(locations, floor_idx, mp4_frame + 1, fps)

BuildFramePlan(locations, fps) ==
    IF locations = <<>> THEN <<>> ELSE PlanLoop(locations, 0, 0, fps)

\* cmd_encode up to the frame plan: scan the raw files of the camera, refuse a camera
\* without raw files, a file without a header, another pixel format than BayerGR8 and
\* a recording without frames; the encoding that follows the plan is not modelled
EncodePlan(fs, serial, fps) ==
    LET raw_files == DiscoverRawFiles(fs, serial)
        locations == CollectFrames(fs, raw_files)
        refused == [NoReport EXCEPT !.cmd = "encode", !.serials = <<serial>>, !.fps = fps,
                                    !.exit = "EXIT_ERROR"]
    IN IF raw_files = <<>> \/ \E i \in 1..Len(raw_files) : FileTooSmall(fs[raw_files[i]])
       THEN refused
       ELSE IF ReadFileHeader(fs[raw_files[1]]).pixel_format # 0 \/ locations = <<>>
       THEN refused
       ELSE [refused EXCEPT !.frames = locations, !.plan = BuildFramePlan(locations, fps),
                            !.exit = "planned"]

(***************************************************************************)
(* The session directories given to the raw tool: recordings of the camera *)
(* first serial in one or two files, damaged recordings, metadata logs.    *)
(***************************************************************************)
ToolSerials == << <<"7">>, <<"4", "2">>, <<"5">> >>

\* sequences over S of length 0..n
RECURSIVE SeqsUpTo(_, _)
SeqsUpTo(S, n) ==
    IF n = 0 THEN {<<>>}
    ELSE LET shorter == SeqsUpTo(S, n - 1)
         IN shorter \cup {Append(s, x) : s \in {t \in shorter : Len(t) = n - 1}, x \in S}

RECURSIVE FrameRecords(_, _)
FrameRecords(frs, base) ==
    IF frs = <<>> THEN <<>>
    ELSE FrameHeaderBytes(frs[1].size, base, frs[1].ts)
            \o [i \in 1..frs[1].size |-> base % 256]
            \o FrameRecords(Tail(frs), base + 1)

\* a raw file as the recorder lays it out: header, then the frame records base, base+1, ..
ToolRawFile(serial, width, frs, base) ==
    FileHeaderBytes(serial, IF frs = <<>> THEN 0 ELSE frs[1].ts, width, HEIGHT,
                    PIXEL_FORMAT_BAYER_GR8)
        \o FrameRecords(frs, base)

\* a directory of the given named contents
Directory(entries) ==
    [name \in {e[1] : e \in entries} |-> (CHOOSE e \in entries : e[1] = name)[2]]


\* recordings of one camera whose frames differ in timestamp and payload size, in one
\* file or split in two, the second file declaring width or width + 1, or numbering its
\* frames from one after the split (a frame is missing)
SplitRecordings ==
    {Directory(
        IF cutAt = Len(frs)
        THEN {<<RawFilename(ToolSerials[1], 0), ToolRawFile(ToolSerials[1], WIDTH, frs, 0)>>}
        ELSE {<<RawFilename(ToolSerials[1], 0),
                ToolRawFile(ToolSerials[1], WIDTH, SubSeq(frs, 1, cutAt), 0)>>,
              <<RawFilename(ToolSerials[1], cutAt),
                ToolRawFile(ToolSerials[1], width2, SubSeq(frs, cutAt + 1, Len(frs)),
                            cutAt + missing)>>}) :
        <<frs, cutAt, width2, missing>> \in
            {t \in SeqsUpTo([ts : 1..MaxToolFrames,
                      size : {WIDTH * HEIGHT, WIDTH * HEIGHT + 1}], MaxToolFrames)
                    \X (0..MaxToolFrames) \X {WIDTH, WIDTH + 1} \X {0, 1} :
                /\ t[2] <= Len(t[1])
                /\ (t[2] = 0 => Len(t[1]) = 0)
                /\ (t[2] = Len(t[1]) => t[3] = WIDTH /\ t[4] = 0)
                /\ (t[4] = 1 => t[3] = WIDTH)}}

\* a two-frame recording in two files, one of them cut off at any byte, beside another
\* camera's one-frame recording, with no log, the log of the frame, a log whose last
\* row is cut, a log without rows, with another timestamp, or with a row too many
DamagedRecordings ==
    LET f0 == ToolRawFile(ToolSerials[1], WIDTH, <<[ts |-> 1, size |-> WIDTH * HEIGHT]>>, 0)
        f1 == ToolRawFile(ToolSerials[1], WIDTH, <<[ts |-> 2, size |-> WIDTH * HEIGHT]>>, 1)
        other == ToolRawFile(ToolSerials[2], WIDTH, <<[ts |-> 1, size |-> WIDTH * HEIGHT]>>, 0)
        logs == {{}, {<<CsvFilename(ToolSerials[2]), <<CsvHeader, CsvRow(0, 1)>> >>},
                 {<<CsvFilename(ToolSerials[2]),
                    <<CsvHeader, CsvRow(0, 1), <<ZeroPad(1, 5), <<>> >> >> >>},
                 {<<CsvFilename(ToolSerials[2]), <<CsvHeader>> >>},
                 {<<CsvFilename(ToolSerials[2]), <<CsvHeader, CsvRow(0, 2)>> >>},
                 {<<CsvFilename(ToolSerials[2]), <<CsvHeader, CsvRow(0, 1), CsvRow(1, 2)>> >>}}
        others == {{}, {<<RawFilename(ToolSerials[2], 0), other>>}}
    IN {Directory({<<RawFilename(ToolSerials[1], 0), SubSeq(f0, 1, n0)>>} \cup second \cup o \cup l) :
            n0 \in 0..Len(f0), second \in {{}, {<<RawFilename(ToolSerials[1], 1), f1>>}},
            o \in others, l \in logs}
       \cup
       {Directory({<<RawFilename(ToolSerials[1], 0), f0>>,
                   <<RawFilename(ToolSerials[1], 1), SubSeq(f1, 1, n1)>>} \cup o \cup l) :
            n1 \in 0..Len(f1), o \in others, l \in logs}

\* the logs of up to three cameras: per camera no log, or rows for some of the frame
\* numbers 1..MaxSyncFrames with timestamps 100, 101 or 103
SyncRows ==
    {SelectSeq([n \in 1..MaxSyncFrames |-> IF pick[n] = 0 THEN <<>> ELSE CsvRow(n, pick[n])],
               LAMBDA row : row # <<>>) :
        pick \in [1..MaxSyncFrames -> {0, 100, 101, 103}]}

SyncLogs ==
    {Directory({<<CsvFilename(ToolSerials[1]), <<CsvHeader>> \o r1>>}
               \cup (IF has2 THEN {<<CsvFilename(ToolSerials[2]), <<CsvHeader>> \o r2>>} ELSE {})
               \cup third) :
        r1 \in SyncRows, r2 \in SyncRows, has2 \in BOOLEAN,
        third \in {{},
                   {<<CsvFilename(ToolSerials[3]),
                      <<CsvHeader, CsvRow(1, 100), CsvRow(1, 103)>> >>},
                   {<<CsvFilename(ToolSerials[3]),
                      <<CsvHeader, CsvRow(1, 101), <<ZeroPad(2, 5), <<>> >> >> >>},
                   {<<RawFilename(ToolSerials[3], 0),
                      ToolRawFile(ToolSerials[3], WIDTH, <<>>, 0)>>}}}

ToolDirs == SplitRecordings \cup DamagedRecordings \cup SyncLogs

\* the frame rates given to encode: an output frame every 2.5, 2, 1.5 (nearly) and 1 ns,
\* around the spacing of the recorded timestamps
EncodeFps == {400000000, 500000000, 666666667, 1000000000}

\* the thresholds given to sync-check, in tenths of a nanosecond

ToolDump(name) ==
    /\ report = NoReport
    /\ name \in DOMAIN files
    /\ MatchRawPattern(name).matched
    /\ report' = Dump(files, name)
    /\ UNCHANGED <<state, error_message, error_detail, cfg, slots, slot, threads, host_target_ns,
                   call, thr, mon, dev, serialOf, files, now, sessions, readBack, timing, cap>>

ToolValidate ==
    /\ report = NoReport
    /\ report' = ValidateSession(files)
    /\ UNCHANGED <<state, error_message, error_detail, cfg, slots, slot, threads, host_target_ns,
                   call, thr, mon, dev, serialOf, files, now, sessions, readBack, timing, cap>>

ToolSyncCheck(tenths) ==
    /\ report = NoReport
    /\ report' = SyncCheck(files, tenths)
    /\ UNCHANGED <<state, error_message, error_detail, cfg, slots, slot, threads, host_target_ns,
                   call, thr, mon, dev, serialOf, files, now, sessions, readBack, timing, cap>>

ToolEncode(serial, fps) ==
    /\ report = NoReport
    /\ report' = EncodePlan(files, serial, fps)
    /\ UNCHANGED <<state, error_message, error_detail, cfg, slots, slot, threads, host_target_ns,
                   call, thr, mon, dev, serialOf, files, now, sessions, readBack, timing, cap>>

Prepare ==
    \/ \E valid \in SUBSET Dev, args \in PrepareArgs, mkdirOk \in BOOLEAN :
            PrepareBegin(valid, args, mkdirOk)
    \/ \E st \in [Dev -> PtpStatuses] : WaitAllSlavesPoll(st)
    \/ WaitAllSlavesTimeout
    \/ \E ok \in BOOLEAN : GetCameraParameters(ok)
    \/ \E ok \in BOOLEAN : LatchTimestamp(ok)
    \/ \E ok \in BOOLEAN : ReadLatchValue(ok)
    \/ \E cancelOk \in BOOLEAN, f \in SchedulerFailures : ConfigureActionScheduler(cancelOk, f)
    \/ \E f \in SetupFailures : SetupRecording(TRUE, f)

Worker(d) ==
    \/ \E ok \in BOOLEAN : WorkerBegin(d, ok)
    \/ WorkerDeadline(d)
    \/ WorkerMp4(d, FALSE, "none")
    \/ WorkerStop(d, {})

Monitor == MonitorJoin \/ MonitorCleanup({}) \/ MonitorFinish

(***************************************************************************)
(* Spec: the life cycle of the controller under any sequence of prepare()  *)
(* and start() calls, with every failure of the cameras and of ffmpeg      *)
(* that decides the control flow.  The cameras deliver no frame here: the  *)
(* workers poll an empty queue until their end time or their ffmpeg dies.  *)
(***************************************************************************)
Next ==
    \/ Prepare
    \/ Start
    \/ \E d \in Dev : Worker(d)
    \/ Monitor
    \/ \E d \in Dev : FfmpegDies(d)
    \/ Tick

Spec == Init /\ [][Next]_vars

\* the scheduling the threads and the clock get
Fairness ==
    /\ WF_vars(Tick)
    /\ WF_vars(Monitor)
    /\ \A d \in Dev : WF_vars(Worker(d))

FairSpec == Spec /\ Fairness

(***************************************************************************)
(* The sessions of a caller that uses the controller as its docstring      *)
(* says: prepare(), then start() if it succeeded.  Preparation succeeds.   *)
(***************************************************************************)
CallerPrepare(argset) ==
    \/ \E valid \in SUBSET Dev, args \in argset :
            state = "idle" /\ PrepareBegin(valid, args, TRUE)
    \/ WaitAllSlavesPoll([d \in Dev |-> "Slave"])
    \/ GetCameraParameters(TRUE)
    \/ LatchTimestamp(TRUE)
    \/ ReadLatchValue(TRUE)
    \/ ConfigureActionScheduler(TRUE, "none")
    \/ SetupRecording(TRUE, "none")

CallerStart == state = "scheduled" /\ Start

(***************************************************************************)
(* RawSpec: raw sessions with frames, on a file system that does not fail, *)
(* read back by the raw tool when the session is over.                     *)
(***************************************************************************)
NextRaw ==
    \/ CallerPrepare(RawArgs)
    \/ CallerStart
    \/ \E d \in Dev : \/ WorkerBegin(d, TRUE)
                      \/ WorkerDeadline(d)
                      \/ WorkerRaw(d, TRUE, "none", "none")
                      \/ WorkerStop(d, {})
    \/ Monitor
    \/ \E d \in Dev : DeviceFrame(d, MaxFrames)
    \/ Tick
    \/ \E d \in Dev : ReadSession(d)

RawSpec == Init /\ [][NextRaw]_vars

(***************************************************************************)
(* Mp4Spec: MP4 sessions with frames and ffmpeg processes that may die.    *)
(***************************************************************************)
NextMp4 ==
    \/ CallerPrepare({args \in PrepareArgs : args.output_format = "mp4"})
    \/ CallerStart
    \/ \E d \in Dev : \/ \E ok \in BOOLEAN : WorkerBegin(d, ok)
                      \/ WorkerDeadline(d)
                      \/ \E dies \in BOOLEAN : WorkerMp4(d, dies, "none")
                      \/ WorkerStop(d, {})
    \/ Monitor
    \/ \E d \in Dev : DeviceFrame(d, MaxFrames)
    \/ \E d \in Dev : FfmpegDies(d)
    \/ Tick

Mp4Spec == Init /\ [][NextMp4]_vars

(***************************************************************************)
(* ReleaseSpec: sessions of either format with one frame per camera, in    *)
(* which one release call of a stop processing or of _cleanup() may raise. *)
(***************************************************************************)
NextRelease ==
    \/ CallerPrepare(PrepareArgs)
    \/ CallerStart
    \/ \E d \in Dev :
            \/ \E ok \in BOOLEAN : WorkerBegin(d, ok)
            \/ WorkerDeadline(d)
            \/ WorkerMp4(d, FALSE, "none")
            \/ WorkerRaw(d, TRUE, "none", "none")
            \/ \E failing \in {{}, {"raw_flush"}, {"acquisition_stop"}, {"stream_stop"}} :
                    WorkerStop(d, failing)
    \/ MonitorJoin
    \/ \E failing \in {{}} \cup {{<<d, c>>} :
                            d \in Dev,
                            c \in {"csv_flush", "csv_close", "raw_flush", "stdin_close",
                                   "acquisition_stop", "stream_stop"}} :
            MonitorCleanup(failing)
    \/ MonitorFinish
    \/ \E d \in Dev : DeviceFrame(d, 1)
    \/ Tick

ReleaseSpec == Init /\ [][NextRelease]_vars

(***************************************************************************)
(* SchedSpec: prepare() on cameras whose clocks are off the host clock,    *)
(* while the host clock advances; a latch may fail and any scheduler       *)
(* property may refuse to be set.                                          *)
(***************************************************************************)
SchedInit ==
    /\ state = "idle"
    /\ error_message = ""
    /\ error_detail = <<>>
    /\ cfg = [start_delay_s |-> 0, duration_s |-> 0, output_format |-> "mp4",
              frames_per_file |-> DEFAULT_FRAMES_PER_FILE]
    /\ slots = <<>>
    /\ slot = [d \in Dev |-> NewSlot]
    /\ threads = {}
    /\ host_target_ns = "unset"
    /\ call = NoCall
    /\ thr = [d \in Dev |-> NoThread]
    /\ mon = "none"
    /\ dev = [d \in Dev |-> NewDev]
    /\ serialOf \in SerialAssignments
    /\ files = NoFiles
    /\ now = 0
    /\ sessions = 0
    /\ readBack = NotRead
    /\ report = NoReport
    /\ \E skew \in [Dev -> {-2, 3}] : timing = [NoTiming EXCEPT !.skew = skew]
    /\ cap = NoCap

NextSched ==
    \/ \E valid \in SUBSET Dev, args \in PrepareArgs :
            state = "idle" /\ PrepareBegin(valid, args, TRUE)
    \/ WaitAllSlavesPoll([d \in Dev |-> "Slave"])
    \/ GetCameraParameters(TRUE)
    \/ \E ok \in BOOLEAN : LatchTimestamp(ok)
    \/ ReadLatchValue(TRUE)
    \/ \E cancelOk \in BOOLEAN, f \in SchedulerFailures : ConfigureActionScheduler(cancelOk, f)
    \/ SetupRecording(TRUE, "none")
    \/ WallAdvance

SchedSpec == SchedInit /\ [][NextSched]_vars

(***************************************************************************)
(* LogSpec: a session of one camera that delivers enough frames to fill a  *)
(* batch of metadata rows, with a worker that keeps up with the camera.    *)
(* The metadata log may fail to open, the writing of a batch may raise,    *)
(* and so may the open and the write of the sink.                          *)
(***************************************************************************)
NextLog ==
    \/ \E args \in PrepareArgs : state = "idle" /\ PrepareBegin({1}, args, TRUE)
    \/ WaitAllSlavesPoll([d \in Dev |-> "Slave"])
    \/ GetCameraParameters(TRUE)
    \/ LatchTimestamp(TRUE)
    \/ ReadLatchValue(TRUE)
    \/ ConfigureActionScheduler(TRUE, "none")
    \/ \E csvOk \in BOOLEAN : SetupRecording(csvOk, "none")
    \/ CallerStart
    \/ \E d \in Dev :
            \/ WorkerBegin(d, TRUE)
            \/ WorkerDeadline(d)
            \/ \E dies \in BOOLEAN, cf \in {"none", "writerows", "partial", "flush"} :
                    WorkerMp4(d, dies, cf)
            \/ \E openOk \in BOOLEAN, wf \in {"none", "header", "payload"},
                   cf \in {"none", "writerows", "partial", "flush"} :
                    WorkerRaw(d, openOk, wf, cf)
            \/ WorkerStop(d, {})
    \/ Monitor
    \/ \E d \in Dev : dev[d].outq = <<>> /\ DeviceFrame(d, MaxLogFrames)
    \/ Tick

LogSpec == Init /\ [][NextLog]_vars

(***************************************************************************)
(* The listener-driven capture scripts, IC4_ActionScheduler.py and         *)
(* ptp-synchronizecapture.py: four cameras, one CamListener each, and the  *)
(* main loop that stops each camera once its listener has paused.  The     *)
(* listener of the first script keeps the frames in the output queue and   *)
(* saves them when the sink is disconnected ("bulk"); the listener of the  *)
(* second script saves them as they arrive ("incremental").                *)
(***************************************************************************)
\* the frame the controller's variables keep while a script runs
CapFrame ==
    UNCHANGED <<state, error_message, error_detail, cfg, slots, slot, threads, host_target_ns,
                call, thr, mon, dev, serialOf, files, now, sessions, readBack, report, timing>>

\* a camera exposes a frame: the QueueSink of max_output_buffers = cap queues it and
\* discards the oldest queued frame when the queue is full; a paused sink ignores it
CamFrame(c, limit, capacity) ==
    /\ cap.main = "loop"
    /\ cap.l[c].streaming /\ cap.l[c].mode = "run"
    /\ cap.l[c].frame_no < limit
    /\ cap' = [cap EXCEPT
                 !.l[c].frame_no = @ + 1,
                 !.l[c].outq = IF Len(@) < capacity THEN Append(@, cap.l[c].frame_no)
                               ELSE Append(Tail(@), cap.l[c].frame_no)]
    /\ CapFrame

\* IC4_ActionScheduler.py, CamListener.frames_queued: pause once the queue is full
BulkFramesQueued(c) ==
    /\ cap.kind = "bulk" /\ cap.main = "loop"
    /\ cap.l[c].streaming
    /\ ~cap.l[c].stop_dropping
    /\ Len(cap.l[c].outq) >= max_frames
    /\ cap' = [cap EXCEPT !.l[c].stop_dropping = TRUE, !.l[c].mode = "pause"]
    /\ CapFrame

\* IC4_ActionScheduler.py, CamListener.sink_disconnected: write a row and save an image
\* for every queued frame, release each buffer, close the log.  fails: save_as_bmp of
\* the first frame raises, which ends the callback after the release of that buffer.
BulkSinkDisconnected(lst, fails) ==
    IF fails /\ lst.outq # <<>>
    THEN [lst EXCEPT !.outq = Tail(@), !.csv_rows = Append(@, Head(lst.outq)),
                     !.popped = @ + 1, !.released = @ + 1, !.disconnected = "failed"]
    ELSE [lst EXCEPT !.outq = <<>>, !.csv_rows = @ \o lst.outq, !.saved = @ \o lst.outq,
                     !.popped = @ + Len(lst.outq), !.released = @ + Len(lst.outq),
                     !.csv_closed = TRUE, !.disconnected = "done"]

\* ptp-synchronizecapture.py, CamListener._flush_csv_buffer
FlushCsvBuffer_NeverForced(lst, force) ==
    IF lst.csv_buffer = <<>> \/ Len(lst.csv_buffer) < 10 THEN lst
    ELSE [lst EXCEPT !.csv_rows = @ \o lst.csv_buffer, !.csv_buffer = <<>>]

FlushCsvBuffer(lst, force) ==
    IF lst.csv_buffer = <<>> \/ (~force /\ Len(lst.csv_buffer) < 10) THEN lst
    ELSE [lst EXCEPT !.csv_rows = @ \o lst.csv_buffer, !.csv_buffer = <<>>]

\* ptp-synchronizecapture.py, CamListener._save_frame
SaveFrame(lst, n) ==
    LET appended == [lst EXCEPT !.saved = Append(@, n), !.csv_buffer = Append(@, n),
                                !.saved_frames = @ + 1]
    IN IF Len(appended.csv_buffer) >= 10 THEN FlushCsvBuffer(appended, FALSE) ELSE appended

\* ptp-synchronizecapture.py, the loop of CamListener.frames_queued.  bmpFails:
\* save_as_bmp of the next frame raises, which ends the callback after the release.
RECURSIVE IncFramesLoop(_, _)
IncFramesLoop(lst, bmpFails) ==
    IF lst.outq = <<>> THEN lst
    ELSE LET n == Head(lst.outq)
             got == [lst EXCEPT !.outq = Tail(@), !.popped = @ + 1, !.released = @ + 1]
             paused == [got EXCEPT !.stop_dropping = TRUE, !.mode = "pause"]
         IN IF got.saved_frames >= target_frames THEN paused
            ELSE IF bmpFails THEN got
            ELSE LET kept == SaveFrame(got, n)
                 IN IF kept.saved_frames >= target_frames
                    THEN [kept EXCEPT !.stop_dropping = TRUE, !.mode = "pause"]
                    ELSE IncFramesLoop(kept, FALSE)

IncFramesQueued(c, bmpFails) ==
    /\ cap.kind = "incremental" /\ cap.main = "loop"
    /\ cap.l[c].streaming
    /\ ~cap.l[c].stop_dropping
    /\ cap.l[c].outq # <<>>
    /\ cap' = [cap EXCEPT !.l[c] = IncFramesLoop(@, bmpFails)]
    /\ CapFrame

\* ptp-synchronizecapture.py, CamListener.sink_disconnected: save the queued frames
\* while the target is not reached, release each buffer, flush and close the log
RECURSIVE IncSinkDisconnected(_)
IncSinkDisconnected(lst) ==
    IF lst.outq = <<>>
    THEN [FlushCsvBuffer(lst, TRUE) EXCEPT !.csv_closed = TRUE, !.disconnected = "done"]
    ELSE LET got == [lst EXCEPT !.outq = Tail(@), !.popped = @ + 1, !.released = @ + 1]
         IN IncSinkDisconnected(IF got.saved_frames < target_frames
                                THEN SaveFrame(got, Head(lst.outq)) ELSE got)

\* main(): for a listener that has paused and whose camera is not in stopped, call
\* stream_stop() (which runs sink_disconnected), ignore an exception, add the camera to
\* stopped.  raises: stream_stop raises before the stream is stopped.
MainStreamStop(c, raises, fails) ==
    /\ cap.main = "loop"
    /\ cap.l[c].stop_dropping /\ c \notin cap.stopped
    /\ fails => (~raises /\ cap.kind = "bulk" /\ cap.l[c].outq # <<>>)
    /\ LET lst == [cap.l[c] EXCEPT !.stops = @ + 1]
           after == IF raises THEN lst
                    ELSE IF cap.kind = "bulk"
                         THEN BulkSinkDisconnected([lst EXCEPT !.streaming = FALSE], fails)
                         ELSE IncSinkDisconnected([lst EXCEPT !.streaming = FALSE])
       IN cap' = [cap EXCEPT !.l[c] = after,
                             !.EndFlag = IF after.disconnected = "done" THEN @ + 1 ELSE @,
                             !.stopped = @ \cup {c}]
    /\ CapFrame

\* main(): leave the loop when every listener's camera is in stopped and EndFlag >= 4
MainExit_AllStopped ==
    /\ cap.main = "loop"
    /\ Cardinality(cap.stopped) = NumCameras
    /\ cap' = [cap EXCEPT !.main = "exited"]
    /\ CapFrame

MainExit ==
    /\ cap.main = "loop"
    /\ Cardinality(cap.stopped) = NumCameras /\ cap.EndFlag >= 4
    /\ cap' = [cap EXCEPT !.main = "exited"]
    /\ CapFrame

\* the scripts after stream_setup of the four cameras, EndFlag = 0 and stopped = set()
CapInit(kind) ==
    /\ state = "idle"
    /\ error_message = ""
    /\ error_detail = <<>>
    /\ cfg = [start_delay_s |-> 0, duration_s |-> 0, output_format |-> "mp4",
              frames_per_file |-> DEFAULT_FRAMES_PER_FILE]
    /\ slots = <<>>
    /\ slot = [d \in Dev |-> NewSlot]
    /\ threads = {}
    /\ host_target_ns = "unset"
    /\ call = NoCall
    /\ thr = [d \in Dev |-> NoThread]
    /\ mon = "none"
    /\ dev = [d \in Dev |-> NewDev]
    /\ serialOf = [d \in Dev |-> Unknown]
    /\ files = NoFiles
    /\ now = 0
    /\ sessions = 0
    /\ readBack = NotRead
    /\ report = NoReport
    /\ timing = NoTiming
    /\ cap = [NoCap EXCEPT !.kind = kind, !.main = "loop",
                           !.l = [c \in Cam |-> [NoListener EXCEPT !.streaming = TRUE]]]

(***************************************************************************)
(* CapSpec: the first script; the cameras deliver frames in any order, a   *)
(* stream_stop may raise and an image may fail to be saved.                *)
(***************************************************************************)
NextCap ==
    \/ \E c \in Cam : CamFrame(c, max_frames + 1, max_frames)
    \/ \E c \in Cam : BulkFramesQueued(c)
    \/ \E c \in Cam, raises \in BOOLEAN, fails \in BOOLEAN : MainStreamStop(c, raises, fails)
    \/ MainExit

CapSpec == CapInit("bulk") /\ [][NextCap]_vars

(***************************************************************************)
(* SaveSpec: the second script; the cameras reach their target one after   *)
(* the other, each with frames_queued callbacks that lag behind the        *)
(* frames by less than the capacity of the queue; one image of the first   *)
(* camera may fail to be saved.                                            *)
(***************************************************************************)
NextSave ==
    \/ \E c \in Cam : /\ \A b \in 1..(c - 1) : cap.l[b].stop_dropping
                      /\ Len(cap.l[c].outq) < max_frames
                      /\ CamFrame(c, target_frames + 2, max_frames)
    \/ \E c \in Cam, bmpFails \in BOOLEAN :
            /\ bmpFails => (c = 1 /\ cap.l[c].released = cap.l[c].saved_frames)
            /\ IncFramesQueued(c, bmpFails)
    \/ \E c \in Cam : MainStreamStop(c, FALSE, FALSE)
    \/ MainExit

SaveSpec == CapInit("incremental") /\ [][NextSave]_vars

(***************************************************************************)
(* ToolSpec: one command of the raw tool run on a session directory.  The  *)
(* recorder is idle.                                                       *)
(***************************************************************************)
ToolInit ==
    /\ state = "idle"
    /\ error_message = ""
    /\ error_detail = <<>>
    /\ cfg = [start_delay_s |-> 0, duration_s |-> 0, output_format |-> "mp4",
              frames_per_file |-> DEFAULT_FRAMES_PER_FILE]
    /\ slots = <<>>
    /\ slot = [d \in Dev |-> NewSlot]
    /\ threads = {}
    /\ host_target_ns = "unset"
    /\ call = NoCall
    /\ thr = [d \in Dev |-> NoThread]
    /\ mon = "none"
    /\ dev = [d \in Dev |-> NewDev]
    /\ serialOf = [d \in Dev |-> IF d = 1 THEN ToolSerials[1] ELSE ToolSerials[2]]
    /\ files \in ToolDirs
    /\ now = 0
    /\ sessions = 0
    /\ readBack = NotRead
    /\ report = NoReport
    /\ timing = NoTiming
    /\ cap = NoCap

NextTool ==
    \/ \E name \in DOMAIN files : ToolDump(name)
    \/ ToolValidate
    \/ \E tenths \in {0, 10, 15, 30} : ToolSyncCheck(tenths)
    \/ \E serial \in {ToolSerials[i] : i \in 1..Len(ToolSerials)}, fps \in EncodeFps :
            ToolEncode(serial, fps)

ToolSpec == ToolInit /\ [][NextTool]_vars

(***************************************************************************)
(* The claims.                                                             *)
(***************************************************************************)
LifeCycle ==
    {<<"idle", "preparing">>, <<"preparing", "scheduled">>, <<"scheduled", "recording">>,
     <<"recording", "stopping">>, <<"stopping", "idle">>}

\* C1: every change of the state follows Idle -> Preparing -> Scheduled -> Recording ->
\* Stopping -> Idle, or goes to Error, under any sequence of prepare() and start() calls
\* interleaved with the worker and monitor threads.
C1_LifeCycleOnly ==
    [][state' # state => (<<state, state'>> \in LifeCycle \/ state' = "error")]_vars

\* C2: when the programming or the commit of the schedule fails on a device, the step
\* ends in Error and no device is left armed with a committed schedule.
C2_NoPartialSchedule ==
    (call.pc = "none" /\ state = "error"
        /\ error_message \in {SchedulerMessage(f) : f \in SchedulerFailures \ {"none"}})
    => \A d \in Dev : ~dev[d].armed

\* C3: no device is committed with an offset that does not come from a latch of this
\* estimation (a missing, zero or stale offset), and no worker runs for such a device.
C3_OffsetFromThisLatch ==
    \A d \in Dev :
        /\ dev[d].armed => dev[d].sched = "fresh"
        /\ Running(d) => slot[d].delta_ns = "fresh"

\* C5: a device whose output queue has reached the cap while its worker is in the loop
\* has a paused listener (sink), which the worker can observe.
C5_QueueCapPauses ==
    \A d \in Dev :
        (thr[d].pc = "loop" /\ Len(dev[d].outq) >= QUEUE_BUFFER_COUNT) => dev[d].mode = "pause"

\* C6: for any list of slots (also with coinciding serials) the monitor joins every worker:
\* teardown does not begin, and the state does not become Idle, while a worker is running.
C6_TeardownAfterAllWorkers ==
    (mon \in {"cleanup", "finish", "done"}) => \A d \in Dev : ~Running(d)

\* C8: at every moment each SRAW file and each metadata log is open for writing by at most
\* one worker.
C8_SingleWriter ==
    \A d, e \in Dev :
        (d # e /\ Running(d) /\ Running(e)) =>
            /\ ~(slot[d].raw_file # <<>> /\ slot[d].raw_file = slot[e].raw_file)
            /\ ~(slot[d].csv_file = "open" /\ slot[e].csv_file = "open"
                    /\ CsvFilename(serialOf[d]) = CsvFilename(serialOf[e]))

\* a worker that has left its capture loop after it had started the acquisition
LeftLoop(d) == thr[d].pc \in {"stop", "done"} /\ thr[d].exit # "acquisition"

\* C4: when the transcoder of one device terminates during the recording, every other
\* device's worker keeps capturing until its own end time (unless its own transcoder
\* terminated too), and the session does not go to Error.
C4_OnlyThatWorkerLeaves ==
    \A d, e \in Dev :
        (d # e /\ slot[d].ffmpeg_proc = "exited" /\ thr[d].exit \in {"ffmpeg", "write_error"})
        => /\ (LeftLoop(e) /\ slot[e].ffmpeg_proc # "exited") => now >= thr[e].end_time
           /\ state # "error"

\* C7: every session that reaches Recording eventually reaches Idle.
C7_RecordingReachesIdle == (state = "recording") ~> (state = "idle")

\* C7, witness: a session whose worker ran to its end time is over and the state is Idle
C7_Witness ==
    /\ state = "idle" /\ mon = "done"
    /\ \E d \in Dev : thr[d].pc = "done" /\ thr[d].exit = "deadline" /\ now >= thr[d].end_time

\* ceil(n / k), k > 0
CeilDiv(n, k) == (n + k - 1) \div k

\* C9: with K > 0 a worker that has written N frames has produced exactly ceil(N/K) files,
\* file j named by start frame j*K and holding exactly the frames j*K .. min((j+1)*K, N)-1,
\* so that the concatenated frame_index sequence is 0..N-1.
C9_SplitEveryK ==
    \A d \in Dev :
        (thr[d].pc = "done" /\ cfg.output_format = "raw" /\ cfg.frames_per_file > 0
            /\ Len(thr[d].wrote) = slot[d].frame_count)
        => LET K == cfg.frames_per_file
               N == slot[d].frame_count
               created == slot[d].raw_files_created
           IN /\ Len(created) = CeilDiv(N, K)
              /\ \A j \in 1..Len(created) :
                    /\ created[j] = RawFilename(serialOf[d], (j - 1) * K)
                    /\ ~FileTooSmall(files[created[j]])
                    /\ LET fr == IterFrameInfos(files[created[j]], FILE_HEADER_SIZE)
                           last == IF j * K < N THEN j * K ELSE N
                       IN /\ Len(fr) = last - (j - 1) * K
                          /\ \A i \in 1..Len(fr) : fr[i].frame_index = (j - 1) * K + i - 1

\* C10: for every serial, N and K < N, reading a session back yields exactly the N frames
\* the worker of that serial wrote, in order, with the same frame_index, timestamp_ns,
\* payload size and payload bytes.
C10_RoundTrip ==
    \A d \in Dev :
        (readBack.done /\ readBack.serial = serialOf[d] /\ thr[d].pc = "done"
            /\ cfg.frames_per_file > 0 /\ cfg.frames_per_file < Len(thr[d].wrote))
        => /\ Len(readBack.frames) = Len(thr[d].wrote)
           /\ \A i \in 1..Len(readBack.frames) :
                /\ readBack.frames[i].frame_index = i - 1
                /\ readBack.frames[i].timestamp_ns = DeviceTimestamp(thr[d].wrote[i])
                /\ readBack.frames[i].payload_size = Len(Payload(thr[d].wrote[i]))
                /\ readBack.frames[i].payload = Payload(thr[d].wrote[i])

\* C11: prepare() goes on to the offset estimation only by a poll in which every device of
\* the session reported Slave; while it waits no device is latched or scheduled; and when
\* the polls are used up it ends in Error with the role counts of the last poll.
C11_WaitForAllSlaves ==
    [][/\ call'.pc = "params" =>
            (call.pc = "wait" /\ call'.counts = <<Len(slots), 0, 0>>)
       /\ call.pc = "wait" =>
            \A d \in Dev : /\ dev'[d].latchReg = dev[d].latchReg
                           /\ dev'[d].armed = dev[d].armed
                           /\ dev'[d].sched = dev[d].sched
       /\ (call.pc = "wait" /\ call'.pc = "none") =>
            /\ call.polls = 0
            /\ state' = "error"
            /\ error_message' = "PTP synchronization failed"
            /\ error_detail' = call.counts
            /\ call.counts[1] < Len(slots)
            /\ call.counts[1] + call.counts[2] + call.counts[3] = Len(slots)]_vars

\* C11, witness: two devices, one Slave and one Master in the last poll: Error with the
\* counts, nothing latched or scheduled
C11_Witness ==
    /\ state = "error" /\ call.pc = "none"
    /\ error_message = "PTP synchronization failed"
    /\ error_detail = <<1, 1, 0>>
    /\ \A d \in Dev : dev[d].latchReg = "unset" /\ ~dev[d].armed

(***************************************************************************)
(* ConfigSpec: sessions whose start_delay_s and trigger_interval_fps have  *)
(* any sign, on cameras that answer every call; a camera may refuse an     *)
(* interval.  The cameras deliver no frame.                                *)
(***************************************************************************)
ConfigPrepare ==
    \/ \E valid \in SUBSET Dev, args \in ConfigArgs :
            state = "idle" /\ PrepareBegin(valid, args, TRUE)
    \/ WaitAllSlavesPoll([d \in Dev |-> "Slave"])
    \/ GetCameraParameters(TRUE)
    \/ LatchTimestamp(TRUE)
    \/ ReadLatchValue(TRUE)
    \/ \E f \in {"none", "interval"} : ConfigureActionScheduler(TRUE, f)
    \/ SetupRecording(TRUE, "none")

NextConfig ==
    \/ ConfigPrepare
    \/ CallerStart
    \/ \E d \in Dev : WorkerBegin(d, TRUE) \/ WorkerDeadline(d) \/ WorkerStop(d, {})
    \/ Monitor
    \/ Tick

ConfigSpec == Init /\ [][NextConfig]_vars

\* C12: when the trigger_interval_fps of a slot is 0 or negative, no device is latched or
\* scheduled, and prepare() ends in Error (it does not end in Preparing, by an exception).
C12_BadFpsRejected ==
    (\E d \in Dev : slot[d].trigger_interval_fps <= 0)
    => /\ \A e \in Dev : dev[e].latchReg = "unset" /\ ~dev[e].armed
       /\ call.pc = "none" => state = "error"

\* C13: when start_delay_s is zero or negative, host_target_ns is not computed from it and
\* no device is latched or scheduled.
C13_BadDelayRejected ==
    (sessions > 0 /\ cfg.start_delay_s <= 0)
    => /\ host_target_ns = "unset"
       /\ \A e \in Dev : dev[e].latchReg = "unset" /\ ~dev[e].armed

\* C14: when the frames of an SRAW file are iterated and the iteration ends without an
\* error, every frame listed has its whole payload in the file and the file ends exactly
\* after the last complete frame record (a file cut inside a frame gives an error).
C14_TruncationIsAnError ==
    (report.cmd = "dump" /\ report.exit = "EXIT_OK")
        => LET c == files[report.file]
               frames == report.frames
               last == IF frames = <<>> THEN FILE_HEADER_SIZE
                       ELSE frames[Len(frames)].file_offset + FRAME_HEADER_SIZE
                                + frames[Len(frames)].payload_size
           IN /\ \A i \in 1..Len(frames) :
                    frames[i].file_offset + FRAME_HEADER_SIZE + frames[i].payload_size <= Len(c)
              /\ last = Len(c)

\* C15: after validate, every camera that has raw files has a PASS or FAIL verdict for
\* each of V1..V6, and for V7 and V8 too when it has a metadata log, whatever the other
\* checks found and whether or not some file could be read.
C15_EveryCheckReported ==
    report.cmd = "validate"
        => \A i \in 1..Len(report.serials) :
              DiscoverRawFiles(files, report.serials[i]) # <<>>
                => /\ \A v \in {"V1", "V2", "V3", "V4", "V5", "V6"} :
                        report.cams[i].checks[v].verdict \in {"PASS", "FAIL"}
                   /\ HasCsv(files, report.serials[i])
                        => \A v \in {"V7", "V8"} :
                              report.cams[i].checks[v].verdict \in {"PASS", "FAIL"}

\* C16: for every camera whose V6 is evaluated, V6 is PASS exactly when timestamp_ns is
\* strictly increasing over the frames of its split files concatenated in start-frame
\* order; otherwise it is FAIL and cites the frame_index of the first frame that is not
\* later than its predecessor, no earlier one.
C16_V6StrictlyIncreasing ==
    report.cmd = "validate"
        => \A i \in 1..Len(report.serials) :
              LET frames == CollectFrames(files, DiscoverRawFiles(files, report.serials[i]))
                  V6 == report.cams[i].checks["V6"]
                  offending == {k \in 2..Len(frames) :
                                   frames[k].timestamp_ns <= frames[k - 1].timestamp_ns}
              IN V6.verdict # "none"
                    => /\ V6.verdict \in {"PASS", "FAIL"}
                       /\ V6.verdict = "PASS" <=> offending = {}
                       /\ V6.verdict = "FAIL"
                            => \E k \in offending :
                                  /\ \A j \in offending : k <= j
                                  /\ V6.cite = frames[k].frame_index

\* a recording of three frames in two files whose third timestamp repeats the second:
\* V6 fails at frame 2, after the increasing pair 0, 1
C16_Witness ==
    /\ report.cmd = "validate"
    /\ \E i \in 1..Len(report.serials) :
          /\ Len(report.cams[i].raw_files) = 2
          /\ Len(report.cams[i].frames) = 3
          /\ report.cams[i].frames[1].timestamp_ns < report.cams[i].frames[2].timestamp_ns
          /\ report.cams[i].frames[3].timestamp_ns = report.cams[i].frames[2].timestamp_ns
          /\ report.cams[i].checks["V6"] = Verdict("FAIL", 2)

\* the frames of the readable files, in order, whose payload_size is not width * height *
\* bytes per pixel as declared by the header of the file that contains the frame
RECURSIVE OwnHeaderMismatches(_, _)
OwnHeaderMismatches(fs, names) ==
    IF names = <<>> THEN <<>>
    ELSE (IF FileTooSmall(fs[Head(names)]) THEN <<>>
          ELSE LET own == ReadFileHeader(fs[Head(names)])
                   expected == own.width * own.height * PixelFormatBpp(own.pixel_format)
               IN SelectSeq(IterFrameInfos(fs[Head(names)], FILE_HEADER_SIZE),
                            LAMBDA fi : fi.payload_size # expected))
         \o OwnHeaderMismatches(fs, Tail(names))

\* C17: for every camera whose V4 is evaluated, V4 is FAIL exactly when some frame's
\* payload_size differs from width * height * bytes per pixel of the header of the file
\* that contains the frame, and then it cites the frame_index of the first such frame.
C17_V4OwnFileHeader ==
    report.cmd = "validate"
        => \A i \in 1..Len(report.serials) :
              LET bad == OwnHeaderMismatches(files, DiscoverRawFiles(files, report.serials[i]))
                  V4 == report.cams[i].checks["V4"]
              IN V4.verdict # "none"
                    => /\ V4.verdict = "FAIL" <=> bad # <<>>
                       /\ V4.verdict = "FAIL" => V4.cite = bad[1].frame_index

\* what sync-check is to compute, read off the logs of the directory: the devices that
\* have a log, the timestamp a log gives for a frame number (its last row for it), the
\* frame numbers common to all logs, and those whose spread exceeds the threshold
SyncExpected(fs, tenths) ==
    LET devices == {serial \in Range(SessionSerials(fs)) : HasCsv(fs, serial)}
        rows(serial) == Tail(fs[CsvFilename(serial)])
        wellFormed == \A serial \in devices :
                         \A k \in 1..Len(rows(serial)) : AllDigits(rows(serial)[k][2])
        frames(serial) == {rows(serial)[k][1] : k \in 1..Len(rows(serial))}
        timestamp(serial, frame_num) ==
            LET k == CHOOSE k \in 1..Len(rows(serial)) :
                        /\ rows(serial)[k][1] = frame_num
                        /\ \A j \in 1..Len(rows(serial)) :
                              rows(serial)[j][1] = frame_num => j <= k
            IN ParseInt(rows(serial)[k][2])
        common == {frame_num \in UNION {frames(serial) : serial \in devices} :
                      \A serial \in devices : frame_num \in frames(serial)}
        spread == IF wellFormed
                  THEN [frame_num \in common |->
                           LET ts == {timestamp(serial, frame_num) : serial \in devices}
                           IN (CHOOSE x \in ts : \A y \in ts : x >= y)
                                 - (CHOOSE x \in ts : \A y \in ts : x <= y)]
                  ELSE <<>>
    IN [devices |-> devices, wellFormed |-> wellFormed, common |-> common, spread |-> spread,
        \* the threshold is in tenths of a nanosecond
        flagged |-> IF wellFormed THEN {frame_num \in common : 10 * spread[frame_num] > tenths}
                    ELSE {}]

C19_EveryReleaseAttempted ==
    mon = "done"
        => \A d \in Dev :
              thr[d].pc = "done"
                => /\ slot[d].csv_writer
                        => {"csv_flush", "csv_close"} \subseteq Range(slot[d].released)
                   /\ "raw_flush" \in Range(slot[d].released)
                        => "raw_close" \in Range(slot[d].released)
                   /\ {"acquisition_stop", "stream_stop"} \subseteq Range(slot[d].released)

\* C20: the release calls of each device are made in this order: flush and close of the
\* metadata log, then flush and close of the raw file or close of the ffmpeg input, then
\* stop of the acquisition.
C20_ReleaseOrder ==
    \A d \in Dev :
      \* the positions of a call in the release history of device d
      LET CallsAt(dd, c) == {i \in 1..Len(slot[dd].released) : slot[dd].released[i] = c}
      IN
        /\ \A i \in CallsAt(d, "csv_flush") \cup CallsAt(d, "csv_close") :
              \A j \in CallsAt(d, "raw_flush") \cup CallsAt(d, "raw_close")
                        \cup CallsAt(d, "stdin_close") \cup CallsAt(d, "acquisition_stop") : i < j
        /\ \A i \in CallsAt(d, "raw_flush") \cup CallsAt(d, "raw_close")
                        \cup CallsAt(d, "stdin_close") :
              \A j \in CallsAt(d, "acquisition_stop") : i < j

\* C21: whenever ACTION_SCHEDULER_COMMIT is issued on a device, the target written to
\* ACTION_SCHEDULER_TIME just before is strictly later than the clock of that device at
\* the commit, whatever time passed since _host_target_ns was computed.
C21_TargetInFuture ==
    \A d \in Dev :
        \A i \in 1..Len(timing.cmds[d]) :
            timing.cmds[d][i].cmd = "commit"
                => timing.cmds[d][i - 2].value > timing.cmds[d][i].clock

\* C22: _host_target_ns is computed once, as the host clock plus the start delay, when
\* the offsets have been stored, and does not change while the devices are programmed;
\* the value written to ACTION_SCHEDULER_TIME of each device is _host_target_ns plus the
\* delta_ns of that device.
C22_SharedHostTarget ==
    [][/\ (call.pc = "read" /\ call'.pc = "configure")
            => timing'.host_target_ns = timing.host + cfg.start_delay_s * 1000000000
       /\ call.pc = "configure"
            => /\ timing'.host_target_ns = timing.host_target_ns
               /\ timing'.delta_ns = timing.delta_ns
               /\ \A d \in Dev :
                     \A i \in 1..Len(timing'.cmds[d]) :
                         timing'.cmds[d][i].cmd = "time"
                            => timing'.cmds[d][i].value
                                  = timing.host_target_ns + timing.delta_ns[d]]_vars

\* two devices with different offsets have been programmed, the second one after the
\* host clock moved on: both targets derive from the one _host_target_ns
C22_Witness ==
    /\ call.pc = "setup"
    /\ Len(slots) = 2
    /\ timing.host > timing.host_target_ns - cfg.start_delay_s * 1000000000
    /\ timing.delta_ns[1] # timing.delta_ns[2]
    /\ timing.cmds[2][2].clock > timing.cmds[1][2].clock + timing.skew[2] - timing.skew[1]
    /\ timing.time_reg[1] - timing.delta_ns[1] = timing.time_reg[2] - timing.delta_ns[2]

\* C23: when the offsets of a session have been estimated, the two readings of the host
\* clock bracket the latch of every device, host_ref_ns is their midpoint and lies
\* between them, and the offset of every device is what its clock showed at the latch
\* issued inside the bracket, minus host_ref_ns.
C23_OffsetFromBracket ==
    call.pc = "configure"
        => /\ timing.host_ref_ns
                 = (timing.host_ref_before_ns + timing.host_ref_after_ns) \div 2
           /\ timing.host_ref_before_ns <= timing.host_ref_ns
           /\ timing.host_ref_ns <= timing.host_ref_after_ns
           /\ \A d \in Range(slots) :
                 /\ timing.host_ref_before_ns <= timing.latch_host[d]
                 /\ timing.latch_host[d] <= timing.host_ref_after_ns
                 /\ timing.delta_ns[d]
                       = timing.latch_host[d] + timing.skew[d] - timing.host_ref_ns

\* C24: ACTION_SCHEDULER_COMMIT is issued on a device only right after CANCEL was
\* attempted and TIME and INTERVAL were accepted, in this order; a step in which TIME or
\* INTERVAL is refused issues no commit and ends prepare(), so that no later device is
\* programmed.
C24_TwoPhaseCommit ==
    [][/\ \A d \in Dev :
            \A i \in 1..Len(timing'.cmds[d]) :
                timing'.cmds[d][i].cmd = "commit"
                    => /\ i >= 4
                       /\ timing'.cmds[d][i - 3].cmd = "cancel"
                       /\ timing'.cmds[d][i - 2].cmd = "time" /\ timing'.cmds[d][i - 2].ok
                       /\ timing'.cmds[d][i - 1].cmd = "interval" /\ timing'.cmds[d][i - 1].ok
       /\ \A d \in Dev :
            (timing'.cmds[d] # timing.cmds[d] /\ timing'.cmds[d] # <<>>)
                => /\ call.pc = "configure" /\ d = slots[call.k]
                   /\ LET last == timing'.cmds[d][Len(timing'.cmds[d])]
                      IN (last.cmd \in {"time", "interval"} /\ ~last.ok)
                            => /\ call'.pc = "none"
                               /\ \A e \in Dev \ {d} : timing'.cmds[e] = timing.cmds[e]]_vars

\* the first device is committed, the second one refused its interval: it has no commit
\* and prepare() has ended in the error state
C24_Witness ==
    /\ call.pc = "none" /\ state = "error"
    /\ Len(timing.cmds[1]) = 4 /\ timing.cmds[1][4].cmd = "commit" /\ timing.cmds[1][4].ok
    /\ Len(timing.cmds[2]) = 3
    /\ timing.cmds[2][3].cmd = "interval" /\ ~timing.cmds[2][3].ok

\* C25: for every camera whose V5 is evaluated, V5 is PASS exactly when the frames of
\* its split files, concatenated in start-frame order, carry the frame_index values
\* 0, 1, ..., N-1 in this order; otherwise it is FAIL and cites the first position whose
\* frame_index is not the position.
C25_V5ExactlyZeroToN ==
    report.cmd = "validate"
        => \A i \in 1..Len(report.serials) :
              LET frames == CollectFrames(files, DiscoverRawFiles(files, report.serials[i]))
                  V5 == report.cams[i].checks["V5"]
                  wrong == {k \in 1..Len(frames) : frames[k].frame_index # k - 1}
              IN V5.verdict # "none"
                    => /\ V5.verdict \in {"PASS", "FAIL"}
                       /\ V5.verdict = "PASS" <=> wrong = {}
                       /\ V5.verdict = "FAIL"
                            => \E k \in wrong : /\ \A j \in wrong : k <= j
                                                /\ V5.cite = k - 1

\* a recording in two files that lacks the frame after the split: the frames 0, 2, 3 are
\* read and V5 fails at position 1
C25_Witness ==
    /\ report.cmd = "validate"
    /\ \E i \in 1..Len(report.serials) :
          /\ Len(report.cams[i].raw_files) = 2
          /\ Len(report.cams[i].frames) = 3
          /\ report.cams[i].frames[1].frame_index = 0
          /\ report.cams[i].frames[2].frame_index = 2
          /\ report.cams[i].frames[3].frame_index = 3
          /\ report.cams[i].checks["V5"] = Verdict("FAIL", 1)

\* C26: for every camera whose V8 is evaluated, V8 is PASS exactly when the metadata log
\* has as many rows as the recording has frames and the timestamp of every row equals
\* timestamp_ns of the frame at the same position.
C26_V8PositionForPosition ==
    report.cmd = "validate"
        => \A i \in 1..Len(report.serials) :
              LET frames == CollectFrames(files, DiscoverRawFiles(files, report.serials[i]))
                  rows == Tail(files[CsvFilename(report.serials[i])])
                  V8 == report.cams[i].checks["V8"]
              IN V8.verdict \in {"PASS", "FAIL"}
                    => (V8.verdict = "PASS"
                          <=> /\ Len(rows) = Len(frames)
                              /\ \A k \in 1..Len(rows) :
                                    ParseInt(rows[k][2]) = frames[k].timestamp_ns)

\* C27: every raw file in the output directory starts with a file header (magic SRAW)
\* that is followed by at least one frame record, and recording_start_ns of the header
\* equals timestamp_ns of the first frame record of that same file.
C27_HeaderStartsAtFirstFrame ==
    \A name \in DOMAIN files :
        (Len(name) > 4 /\ SubSeq(name, Len(name) - 3, Len(name)) = <<".", "r", "a", "w">>)
            => /\ ~FileTooSmall(files[name])
               /\ ReadFileHeader(files[name]).magic = SRAW_MAGIC
               /\ LET frames == IterFrameInfos(files[name], FILE_HEADER_SIZE)
                  IN /\ frames # <<>>
                     /\ ReadFileHeader(files[name]).recording_start_ns = frames[1].timestamp_ns

\* a session split into files of one frame has ended: the file opened at the second
\* split starts with a header that carries the timestamp of the third frame
C27_Witness ==
    /\ state = "idle" /\ mon = "done"
    /\ \E d \in Dev :
          LET name == RawFilename(serialOf[d], 2)
          IN /\ Len(slot[d].raw_files_created) = 3
             /\ name \in DOMAIN files
             /\ ReadFileHeader(files[name]).recording_start_ns = DeviceTimestamp(2)
             /\ IterFrameInfos(files[name], FILE_HEADER_SIZE)[1].frame_index = 2

C29_OneRowPerWrittenFrame ==
    (state = "idle" /\ mon = "done")
        => \A d \in Dev :
              thr[d].pc = "done"
                 => /\ CsvFilename(serialOf[d]) \in DOMAIN files
                    /\ files[CsvFilename(serialOf[d])]
                          = <<CsvHeader>> \o [i \in 1..Len(thr[d].wrote) |->
                                                CsvRow(thr[d].wrote[i],
                                                       DeviceTimestamp(thr[d].wrote[i]))]
                    /\ Len(files[CsvFilename(serialOf[d])]) - 1 = slot[d].frame_count

\* C30: the pending buffer of a camera always holds fewer than CSV_FLUSH_INTERVAL rows;
\* the rows written to the log, followed by the pending ones, are exactly the rows
\* appended so far, each once and in order; and when the teardown has finished the log
\* file holds the header row and exactly these rows.
C30_BatchesWrittenOnce ==
    \A d \in Dev :
        LET logs == SelectSeq(thr[d].trace, LAMBDA e : e.ev = "log")
            appended == [i \in 1..Len(logs) |-> CsvRow(logs[i].n, DeviceTimestamp(logs[i].n))]
        IN /\ Len(slot[d].csv_buffer) < CSV_FLUSH_INTERVAL
           /\ (slot[d].csv_writer /\ thr[d].pc \in {"loop", "stop", "done"})
                 => /\ slot[d].csv_rows \o slot[d].csv_buffer = <<CsvHeader>> \o appended
                    /\ (state = "idle" /\ mon = "done")
                          => files[CsvFilename(serialOf[d])] = <<CsvHeader>> \o appended

\* C31: the workers of a session that have entered their loop share one end time, and
\* while a worker of the session is started or running the offset of no device and no
\* scheduler register is written.
C31_OneSessionEndTime ==
    /\ [](\A d, e \in Dev :
            (/\ thr[d].pc \in {"loop", "stop", "done"} /\ thr[d].exit # "acquisition"
             /\ thr[e].pc \in {"loop", "stop", "done"} /\ thr[e].exit # "acquisition")
                => thr[d].end_time = thr[e].end_time)
    /\ [][(\E d \in Dev : thr[d].pc \in {"start", "loop", "stop"})
             => /\ \A d \in Dev : slot'[d].delta_ns = slot[d].delta_ns
                /\ timing'.delta_ns = timing.delta_ns
                /\ timing'.host_target_ns = timing.host_target_ns
                /\ timing'.time_reg = timing.time_reg
                /\ timing'.interval_reg = timing.interval_reg
                /\ host_target_ns' = host_target_ns]_vars

\* C32: a step in which prepare() or start() rejects a call made in the wrong state leaves
\* the state, the slots and the threads as they were, and is_recording() (the state is
\* Scheduled or Recording) is true whenever a worker thread is alive.
C32_RejectedCallChangesNothing ==
    /\ [][(/\ state' = "error"
           /\ error_message' \in {"Recording is already in progress", "Not in scheduled state"}
           /\ (state # "error" \/ error_message' # error_message))
             => /\ state' = state
                /\ slots' = slots /\ slot' = slot
                /\ threads' = threads /\ thr' = thr]_vars
    /\ []((\E d \in Dev : Running(d)) => state \in {"scheduled", "recording"})

\* C33: whenever no call, no worker and no monitor is running and the controller is not
\* holding a prepared session, the state is Idle, which is the one state in which
\* prepare() does not reject a call as 'already in progress'.
C33_ReusableAfterFailure ==
    (/\ call.pc = "none"
     /\ \A d \in Dev : ~Running(d)
     /\ mon \in {"none", "done"}
     /\ state # "scheduled")
        => state = "idle"

\* C34: a listener that has paused stays paused; stream_stop is called at most once for a
\* camera, and only when its listener has paused; and when the main loop has ended the
\* stream of every camera has been stopped once, the disconnect callback of every camera
\* has completed, and EndFlag equals the number of cameras.
C34_StopAfterPauseExitWhenDone ==
    /\ [](\A c \in Cam : cap.l[c].stops <= 1)
    /\ [](cap.main = "exited"
            => /\ \A c \in Cam : /\ cap.l[c].stops = 1
                                 /\ ~cap.l[c].streaming
                                 /\ cap.l[c].disconnected = "done"
               /\ cap.EndFlag = NumCameras)
    /\ [][\A c \in Cam :
            /\ cap.l[c].stop_dropping => cap'.l[c].stop_dropping
            /\ cap'.l[c].stops # cap.l[c].stops
                  => cap.l[c].stop_dropping /\ cap.l[c].mode = "pause"]_vars

\* the main loop has ended after every camera filled its queue and saved its frames
C34_Witness ==
    /\ cap.kind = "bulk" /\ cap.main = "exited"
    /\ cap.EndFlag = 4
    /\ \A c \in Cam : Len(cap.l[c].saved) = max_frames /\ cap.l[c].csv_closed

\* C35: for every camera of the incremental-save script, saved_frames counts the frames
\* saved and never exceeds target_frames, every popped buffer has been released when a
\* callback has returned, and once the log is closed its rows are the saved frames, one
\* row each and in order.
C35_SavedWithinTarget ==
    \A c \in Cam :
        /\ cap.l[c].saved_frames <= target_frames
        /\ cap.l[c].saved_frames = Len(cap.l[c].saved)
        /\ cap.l[c].released = cap.l[c].popped
        /\ cap.l[c].csv_closed
              => /\ Len(cap.l[c].csv_rows) = cap.l[c].saved_frames
                 /\ cap.l[c].csv_rows = cap.l[c].saved

\* the second camera reached its target while one more frame was queued: the final
\* drain popped and released that frame without saving it, and the log was closed
C35_Witness ==
    /\ cap.kind = "incremental"
    /\ cap.l[2].csv_closed
    /\ cap.l[2].saved_frames = target_frames
    /\ cap.l[2].released = target_frames + 1
    /\ Len(cap.l[2].csv_rows) = target_frames

\* C36: validate exits with EXIT_OK only if every camera found in the session directory
\* has raw files, all of them could be read, and no check evaluated for it failed: V1 to
\* V6 passed, and V7 and V8 passed when the camera has a metadata log.
C36_OkOnlyIfEveryCameraChecked ==
    (report.cmd = "validate" /\ report.exit = "EXIT_OK")
        => \A i \in 1..Len(report.serials) :
              /\ DiscoverRawFiles(files, report.serials[i]) # <<>>
              /\ report.cams[i].read_errors = 0
              /\ \A v \in {"V1", "V2", "V3", "V4", "V5", "V6"} :
                    report.cams[i].checks[v].verdict = "PASS"
              /\ HasCsv(files, report.serials[i])
                    => \A v \in {"V7", "V8"} : report.cams[i].checks[v].verdict = "PASS"

\* C37: when encode has planned a recording whose timestamps do not decrease, the plan
\* is not empty, its entries are indices of recorded frames and do not decrease, and
\* the entry for output frame k = 0, 1, .. is the last recorded frame whose timestamp
\* is not after t_first + k * 1_000_000_000 / fps, the final entry included.
C37_PlanIsFloorFrame ==
    LET locations == report.frames
        plan == report.plan
        floor(k) == CHOOSE i \in 0..(Len(locations) - 1) :
                        /\ NotAfterTarget(locations[i + 1].timestamp_ns,
                                          locations[1].timestamp_ns, k, report.fps)
                        /\ \A j \in (i + 1)..(Len(locations) - 1) :
                              ~NotAfterTarget(locations[j + 1].timestamp_ns,
                                              locations[1].timestamp_ns, k, report.fps)
    IN (/\ report.cmd = "encode" /\ report.exit = "planned"
        /\ \A i \in 1..(Len(locations) - 1) :
              locations[i].timestamp_ns <= locations[i + 1].timestamp_ns)
          => /\ plan # <<>>
             /\ \A k \in 1..Len(plan) : plan[k] \in 0..(Len(locations) - 1)
             /\ \A k \in 1..(Len(plan) - 1) : plan[k] <= plan[k + 1]
             /\ \A k \in 1..Len(plan) : plan[k] = floor(k - 1)

\* C38: with frames_per_file <= 0 a raw worker that has written N frames has created one
\* file when N >= 1 and none when N = 0; the file is named by start frame 0 and holds
\* exactly the N frames, with frame_index 0..N-1.
C38_NoSplitWithoutThreshold ==
    \A d \in Dev :
        (thr[d].pc = "done" /\ cfg.output_format = "raw" /\ cfg.frames_per_file <= 0
            /\ Len(thr[d].wrote) = slot[d].frame_count)
        => LET N == slot[d].frame_count
               created == slot[d].raw_files_created
           IN /\ Len(created) = (IF N >= 1 THEN 1 ELSE 0)
              /\ N >= 1
                    => /\ created[1] = RawFilename(serialOf[d], 0)
                       /\ ~FileTooSmall(files[created[1]])
                       /\ LET fr == IterFrameInfos(files[created[1]], FILE_HEADER_SIZE)
                          IN /\ Len(fr) = N
                             /\ \A i \in 1..N : fr[i].frame_index = i - 1
====
